---- MODULE Spec2Model ----
(***************************************************************************)
(* A model of the key chain of ipfs-encryption (class Keychain, the        *)
(* datastore-backed key store) and of the datastore it writes to.          *)
(*                                                                         *)
(* Strings that the code inspects character by character (key names, key   *)
(* types) are sequences of one-character strings.  The JavaScript values   *)
(* null and undefined are the two one-element sequences Null and Undefined, *)
(* whose single element is no character.                                   *)
(*                                                                         *)
(* Every public operation is a chain of steps: the synchronous part of the *)
(* call, and then one step per asynchronous completion (a datastore        *)
(* request, the RSA key generation).  A step runs the whole callback,      *)
(* up to the next asynchronous request or to the caller's callback.        *)
(***************************************************************************)
EXTENDS Integers, Sequences, FiniteSets, TLC

VARIABLES
    store,      \* the datastore: datastore key -> stored bytes (a PEM)
    calls,      \* per caller: the operation in flight or its outcome
    nextKey,    \* how many RSA key pairs have been generated so far
    chain,      \* the Keychain object: its dek profile and its DEK closure
    ctor        \* the last constructor invocation: its arguments and outcome

vars == <<store, calls, nextKey, chain, ctor>>

-----------------------------------------------------------------------------
(* Bounds of the model *)

\* Key pairs the RSA generator hands out before the model stops generating.
MaxKeys == 2

\* The callers that may have an operation in flight at the same time.
Procs == {1, 2}

-----------------------------------------------------------------------------
(* JavaScript strings as sequences of characters *)

Null == <<"null-value">>
Undefined == <<"undefined-value">>

\* !value for the values a name or a pem argument can take
Falsy(v) == v \in {Null, Undefined, <<>>}

WhiteSpace == {" "}

RECURSIVE TrimLeft(_)
TrimLeft(s) ==
    IF s # <<>> /\ Head(s) \in WhiteSpace THEN TrimLeft(Tail(s)) ELSE s

RECURSIVE TrimRight(_)
TrimRight(s) ==
    IF s # <<>> /\ s[Len(s)] \in WhiteSpace
    THEN TrimRight(SubSeq(s, 1, Len(s) - 1))
    ELSE s

\* String.prototype.trim
Trim(s) == TrimRight(TrimLeft(s))

UpperToLower == [c \in {"R", "S", "A", "C", "O", "N"} |->
    CASE c = "R" -> "r" [] c = "S" -> "s" [] c = "A" -> "a"
      [] c = "C" -> "c" [] c = "O" -> "o" [] c = "N" -> "n"]

LowerChar(c) == IF c \in DOMAIN UpperToLower THEN UpperToLower[c] ELSE c

\* String.prototype.toLowerCase
ToLowerCase(s) == [i \in 1..Len(s) |-> LowerChar(s[i])]

-----------------------------------------------------------------------------
(* sanitize-filename, as validateKeyName calls it (replacement '') *)

\* illegalRe = /[\/\?<>\\:\*\|":]/g
IllegalChars == {"/", "?", "<", ">", "\\", ":", "*", "|", "\""}

RECURSIVE RemoveChars(_, _)
RemoveChars(s, bad) ==
    IF s = <<>> THEN <<>>
    ELSE IF Head(s) \in bad THEN RemoveChars(Tail(s), bad)
    ELSE <<Head(s)>> \o RemoveChars(Tail(s), bad)

\* reservedRe = /^\.+$/
IsReserved(s) == s # <<>> /\ \A i \in 1..Len(s) : s[i] = "."

\* windowsReservedRe = /^(con|prn|aux|nul|com[0-9]|lpt[0-9])(\..*)?$/i
WindowsReservedNames ==
    {<<"c", "o", "n">>, <<"p", "r", "n">>, <<"a", "u", "x">>, <<"n", "u", "l">>}
    \cup {<<"c", "o", "m", d>> : d \in {"0", "1", "2", "3", "4", "5", "6", "7", "8", "9"}}
    \cup {<<"l", "p", "t", d>> : d \in {"0", "1", "2", "3", "4", "5", "6", "7", "8", "9"}}

IsWindowsReserved(s) ==
    \E n \in 1..Len(s) :
        /\ ToLowerCase(SubSeq(s, 1, n)) \in WindowsReservedNames
        /\ (n = Len(s) \/ s[n + 1] = ".")

\* windowsTrailingRe = /[\. ]+$/
RECURSIVE StripTrailing(_)
StripTrailing(s) ==
    IF s # <<>> /\ s[Len(s)] \in {".", " "}
    THEN StripTrailing(SubSeq(s, 1, Len(s) - 1))
    ELSE s

sanitize(input) ==
    LET s1 == RemoveChars(input, IllegalChars)
        s2 == IF IsReserved(s1) THEN <<>> ELSE s1
        s3 == IF IsWindowsReserved(s2) THEN <<>> ELSE s2
    IN  StripTrailing(s3)

\* A faulty validateKeyName that forgets to sanitize the name.
validateKeyName_Unsanitized(name) ==
    IF Falsy(name) THEN FALSE ELSE name = Trim(name)

validateKeyName(name) ==
    IF Falsy(name) THEN FALSE ELSE name = sanitize(Trim(name))

\* Converts a key name into a datastore name.
DsName(name) == <<"/">> \o name

\* Converts a datastore name into a key name.
KsName(dsname) == Tail(dsname)

-----------------------------------------------------------------------------
(* Key material, pass phrases and PEM files *)

\* A pass phrase or password given as text.
Text(s) == <<"str", s>>

\* The n-th key pair the RSA generator produces.
GeneratedKey(n) == <<"rsa", "generated", n>>

\* The private key of the peer identity alice.
PeerKey == <<"rsa", "peer", 0>>

\* forge.pki.encryptRsaPrivateKey(privateKey, password): encrypted PKCS #8
encryptRsaPrivateKey(privateKey, password) ==
    [type |-> "ENCRYPTED PRIVATE KEY", key |-> privateKey, pass |-> password]

\* A PKCS #8 PEM that is not encrypted, and bytes that are no PEM at all.
PlainPem(privateKey) ==
    [type |-> "PRIVATE KEY", key |-> privateKey, pass |-> Text("")]
NotPem == [type |-> "", key |-> Null, pass |-> Text("")]

\* forge.pki.decryptRsaPrivateKey(pem, password): the private key, null when
\* the password does not decrypt it; throws when pem is no private key PEM.
DecryptThrows(pem) ==
    pem.type \notin {"ENCRYPTED PRIVATE KEY", "PRIVATE KEY", "RSA PRIVATE KEY"}
decryptRsaPrivateKey(pem, password) ==
    IF pem.type = "ENCRYPTED PRIVATE KEY" /\ pem.pass # password
    THEN Null
    ELSE pem.key

\* util.keyId: base64 of the SHA-256 of the DER of the RSA public key
keyId(privateKey) == <<"base64-sha256", privateKey>>

-----------------------------------------------------------------------------
(* The constructor *)

\* NIST SP 800-132
NIST == [minKeyLength |-> 112 \div 8,
         minSaltLength |-> 128 \div 8,
         minIterationCount |-> 1000]

MinPassPhraseLength == 20

defaultOptions ==
    [dek |-> [keyLength |-> 512 \div 8,
              iterationCount |-> 10000,
              salt |-> "you should override this value with a crypto secure random number",
              hash |-> "sha512"]]

\* deepmerge(defaultOptions, options): the fields of options win, the fields
\* of dek are merged one by one.
deepmerge(defaults, options) ==
    LET top == options @@ defaults
    IN  [top EXCEPT !.dek =
            (IF "dek" \in DOMAIN options THEN options.dek ELSE <<>>) @@ defaults.dek]

\* forge.pkcs5.pbkdf2, then forge.util.bytesToHex
pbkdf2Hex(passPhrase, dek) ==
    <<"hex", passPhrase, dek.salt, dek.iterationCount, dek.keyLength, dek.hash>>

\* A faulty constructor check that forgets the floor of the salt.
ConstructorError_NoSaltFloor(hasStore, opts) ==
    IF ~hasStore THEN "store is required"
    ELSE IF "passPhrase" \notin DOMAIN opts
            \/ Len(opts.passPhrase) < MinPassPhraseLength
    THEN "passPhrase must be least 20 characters"
    ELSE IF opts.dek.keyLength < NIST.minKeyLength
    THEN "dek.keyLength must be least 14 bytes"
    ELSE IF opts.dek.iterationCount < NIST.minIterationCount
    THEN "dek.iterationCount must be least 1000"
    ELSE ""

\* The message of the error the constructor throws, "" when it returns.
ConstructorError(hasStore, opts) ==
    IF ~hasStore THEN "store is required"
    ELSE IF "passPhrase" \notin DOMAIN opts
            \/ Len(opts.passPhrase) < MinPassPhraseLength
    THEN "passPhrase must be least 20 characters"
    ELSE IF opts.dek.keyLength < NIST.minKeyLength
    THEN "dek.keyLength must be least 14 bytes"
    ELSE IF Len(opts.dek.salt) < NIST.minSaltLength
    THEN "dek.saltLength must be least 16 bytes"
    ELSE IF opts.dek.iterationCount < NIST.minIterationCount
    THEN "dek.iterationCount must be least 1000"
    ELSE ""

\* ks._(): the property '_' the constructor defines on the object is a
\* function that returns the DEK to whoever calls it.
DekAccessor(keychain) == keychain.secret

NoChain == [constructed |-> FALSE, dek |-> <<>>, secret |-> <<>>]

\* new Keychain(store, options): the object, NoChain when the constructor throws
NewKeychain(hasStore, options) ==
    LET opts == deepmerge(defaultOptions, options)
    IN  IF ConstructorError(hasStore, opts) # ""
        THEN NoChain
        ELSE [constructed |-> TRUE,
              dek |-> opts.dek,
              secret |-> pbkdf2Hex(opts.passPhrase, opts.dek)]

\* What the callers of the constructor pass.
PassPhraseInputs ==
    {"this is not a secure phrase", "< 20 character",
     "exactly 20 chars.../", "only 19 characters:"}
KeyLengthInputs == {13, 14}
SaltInputs == {"fifteen bytes !", "sixteen bytes !!"}
IterationCountInputs == {999, 1000}

DekInputs ==
    {<<>>}
    \cup {[keyLength |-> k] : k \in KeyLengthInputs}
    \cup {[salt |-> s] : s \in SaltInputs}
    \cup {[iterationCount |-> i] : i \in IterationCountInputs}
    \cup {[keyLength |-> k, salt |-> s, iterationCount |-> i, hash |-> "sha256"] :
            k \in KeyLengthInputs, s \in SaltInputs, i \in IterationCountInputs}

OptionsInputs ==
    {<<>>}
    \cup {[passPhrase |-> p] : p \in PassPhraseInputs}
    \cup {[dek |-> d] : d \in DekInputs \ {<<>>}}
    \cup {[passPhrase |-> p, dek |-> d] : p \in PassPhraseInputs, d \in DekInputs \ {<<>>}}

NoCtor == [called |-> FALSE, hasStore |-> FALSE, options |-> <<>>, err |-> ""]

Construct(hasStore, options) ==
    /\ ctor' = [called |-> TRUE, hasStore |-> hasStore, options |-> options,
                err |-> ConstructorError(hasStore, deepmerge(defaultOptions, options))]
    /\ chain' = NewKeychain(hasStore, options)
    /\ UNCHANGED <<store, calls, nextKey>>

\* The chain the tests build: a store and the pass phrase, default dek.
TestOptions == [passPhrase |-> "this is not a secure phrase"]
TestChain == NewKeychain(TRUE, TestOptions)

\* this._()
Dek == chain.secret

-----------------------------------------------------------------------------
(* The datastore *)

\* store.has(dsname)
StoreHas(dsname) == dsname \in DOMAIN store

\* A faulty put that leaves only the record it wrote.
StorePut_OthersLost(s, dsname, bytes) == [k \in {dsname} |-> bytes]

\* store.put(dsname, bytes), last write wins
StorePut(s, dsname, bytes) ==
    [k \in DOMAIN s \cup {dsname} |-> IF k = dsname THEN bytes ELSE s[k]]

\* store.delete(dsname)
StoreDelete(s, dsname) == [k \in DOMAIN s \ {dsname} |-> s[k]]

EmptyStore == <<>>

-----------------------------------------------------------------------------
(* Calls in flight *)

NoErr == [msg |-> "", arg |-> <<>>]
Error(msg, arg) == [msg |-> msg, arg |-> arg]

NoInfo == [name |-> <<>>, id |-> <<>>]

Idle == [op |-> "", args |-> <<>>, pc |-> "idle", key |-> Null, pem |-> NotPem,
         names |-> <<>>, infos |-> <<>>, err |-> NoErr, val |-> <<>>, ios |-> <<>>]

\* A caller with no operation in flight: it may call.
Free(p) == calls[p].pc \in {"idle", "done", "crashed"}

\* The state of a call about to wait for its first asynchronous completion.
Started(op, args, pc) == [Idle EXCEPT !.op = op, !.args = args, !.pc = pc]

\* callback(err, val) of the call c
Callback(c, err, val) == [c EXCEPT !.pc = "done", !.err = err, !.val = val]

\* an exception nobody catches, thrown from a completion handler
Crash(c) == [c EXCEPT !.pc = "crashed"]

\* the call c after the datastore served its request req
Served(c, req) == [c EXCEPT !.ios = Append(@, req)]

Succeeded(c) == c.pc = "done" /\ c.err = NoErr
Failed(c) == c.pc = "done" /\ c.err # NoErr

Self == <<"s", "e", "l", "f">>

Range(f) == {f[i] : i \in DOMAIN f}

-----------------------------------------------------------------------------
(* _getKeyInfo, also published as findKeyByName *)

\* The synchronous part: validate the name, ask the store for the PEM.
GetKeyInfoCall(c, name) ==
    IF ~validateKeyName(name)
    THEN Callback(c, Error("Invalid key name", name), <<>>)
    ELSE [c EXCEPT !.pc = "info", !.args = [name |-> name] @@ c.args]

\* A faulty KeyInfo that loses the name.
KeyInfoOf_Unnamed(name, pem) ==
    IF DecryptThrows(pem) \/ decryptRsaPrivateKey(pem, Dek) = Null
    THEN [err |-> Error("exception", name), info |-> NoInfo]
    ELSE [err |-> NoErr,
          info |-> [name |-> <<>>, id |-> keyId(decryptRsaPrivateKey(pem, Dek))]]

\* The KeyInfo of a stored PEM: decrypt it with the DEK, hash the public key.
\* The error is non-empty when the try block threw.
KeyInfoOf(name, pem) ==
    IF DecryptThrows(pem) \/ decryptRsaPrivateKey(pem, Dek) = Null
    THEN [err |-> Error("exception", name), info |-> NoInfo]
    ELSE [err |-> NoErr,
          info |-> [name |-> name, id |-> keyId(decryptRsaPrivateKey(pem, Dek))]]

\* The completion of store.get in _getKeyInfo.
GetKeyInfoDone(c, name) ==
    LET dsname == DsName(name)
        s == Served(c, "get")
    IN  IF ~StoreHas(dsname)
        THEN Callback(s, Error("Key does not exist", name), <<>>)
        ELSE LET r == KeyInfoOf(name, store[dsname])
             IN  IF r.err # NoErr
                 THEN Callback(s, r.err, <<>>)
                 ELSE Callback(s, NoErr, r.info)

-----------------------------------------------------------------------------
(* createKey *)

MinRsaKeySize == 2048

Rsa == <<"r", "s", "a">>

\* Key generations that calls in flight will still ask for.
PendingGenerations ==
    Cardinality({p \in Procs : calls[p].pc \in {"create.has", "create.gen"}})

CallCreateKey(p, name, type, size) ==
    /\ Free(p)
    /\ (validateKeyName(name) /\ name # Self) => nextKey + PendingGenerations < MaxKeys
    /\ calls' = [calls EXCEPT ![p] =
        IF ~validateKeyName(name) \/ name = Self
        THEN Callback(Started("createKey", [name |-> name, type |-> type, size |-> size], "call"),
                      Error("Invalid key name", name), <<>>)
        ELSE Started("createKey", [name |-> name, type |-> type, size |-> size],
                     "create.has")]
    /\ UNCHANGED <<store, nextKey, chain, ctor>>

\* A faulty completion of store.has in createKey that compares the type
\* without lower-casing it.
CreateKeyHas_CaseSensitive(p) ==
    LET c == Served(calls[p], "has")
        name == c.args.name
    IN  /\ calls[p].pc = "create.has"
        /\ calls' = [calls EXCEPT ![p] =
            IF StoreHas(DsName(name))
            THEN Callback(c, Error("Key already exists", name), <<>>)
            ELSE IF c.args.type \in {Null, Undefined}
            THEN Crash(c)
            ELSE IF c.args.type = Rsa
            THEN IF c.args.size < MinRsaKeySize
                 THEN Callback(c, Error("Invalid RSA key size", <<c.args.size>>), <<>>)
                 ELSE [c EXCEPT !.pc = "create.gen"]
            ELSE Callback(c, Error("Invalid key type", c.args.type), <<>>)]
        /\ UNCHANGED <<store, nextKey, chain, ctor>>

\* The completion of store.has: the duplicate check and the switch on the type.
CreateKeyHas(p) ==
    LET c == Served(calls[p], "has")
        name == c.args.name
    IN  /\ calls[p].pc = "create.has"
        /\ calls' = [calls EXCEPT ![p] =
            IF StoreHas(DsName(name))
            THEN Callback(c, Error("Key already exists", name), <<>>)
            ELSE IF c.args.type \in {Null, Undefined}
            THEN Crash(c)
            ELSE IF ToLowerCase(c.args.type) = Rsa
            THEN IF c.args.size < MinRsaKeySize
                 THEN Callback(c, Error("Invalid RSA key size", <<c.args.size>>), <<>>)
                 ELSE [c EXCEPT !.pc = "create.gen"]
            ELSE Callback(c, Error("Invalid key type", c.args.type), <<>>)]
        /\ UNCHANGED <<store, nextKey, chain, ctor>>

\* The completion of forge.pki.rsa.generateKeyPair: wrap the key, ask for the put.
CreateKeyGenerated(p) ==
    LET keypair == GeneratedKey(nextKey + 1)
    IN  /\ calls[p].pc = "create.gen"
        /\ nextKey < MaxKeys
        /\ nextKey' = nextKey + 1
        /\ calls' = [calls EXCEPT ![p] =
                [@ EXCEPT !.pc = "create.put", !.key = keypair,
                          !.pem = encryptRsaPrivateKey(keypair, Dek)]]
        /\ UNCHANGED <<store, chain, ctor>>

\* The completion of store.put: the record is written, then _getKeyInfo(name).
CreateKeyPut(p) ==
    LET c == Served(calls[p], "put")
    IN  /\ calls[p].pc = "create.put"
        /\ store' = StorePut(store, DsName(c.args.name), c.pem)
        /\ calls' = [calls EXCEPT ![p] = GetKeyInfoCall(c, c.args.name)]
        /\ UNCHANGED <<nextKey, chain, ctor>>

\* The completion of store.get in the _getKeyInfo that ends an operation.
GetKeyInfo(p) ==
    /\ calls[p].pc = "info"
    /\ calls' = [calls EXCEPT ![p] = GetKeyInfoDone(calls[p], calls[p].args.name)]
    /\ UNCHANGED <<store, nextKey, chain, ctor>>

CallFindKeyByName(p, name) ==
    /\ Free(p)
    /\ calls' = [calls EXCEPT ![p] =
            GetKeyInfoCall(Started("findKeyByName", [name |-> name], "call"), name)]
    /\ UNCHANGED <<store, nextKey, chain, ctor>>

-----------------------------------------------------------------------------
(* removeKey *)

CallRemoveKey(p, name) ==
    /\ Free(p)
    /\ calls' = [calls EXCEPT ![p] =
        IF ~validateKeyName(name) \/ name = Self
        THEN Callback(Started("removeKey", [name |-> name], "call"),
                      Error("Invalid key name", name), <<>>)
        ELSE Started("removeKey", [name |-> name], "remove.has")]
    /\ UNCHANGED <<store, nextKey, chain, ctor>>

\* The completion of store.has.
RemoveKeyHas(p) ==
    LET c == Served(calls[p], "has")
    IN  /\ calls[p].pc = "remove.has"
        /\ calls' = [calls EXCEPT ![p] =
            IF ~StoreHas(DsName(c.args.name))
            THEN Callback(c, Error("Key does not exist", c.args.name), <<>>)
            ELSE [c EXCEPT !.pc = "remove.delete"]]
        /\ UNCHANGED <<store, nextKey, chain, ctor>>

\* A faulty completion of store.delete that reports success for a delete
\* that did not happen.
RemoveKeyDelete_NothingDeleted(p) ==
    LET c == Served(calls[p], "delete")
    IN  /\ calls[p].pc = "remove.delete"
        /\ calls' = [calls EXCEPT ![p] = Callback(c, NoErr, <<>>)]
        /\ UNCHANGED <<store, nextKey, chain, ctor>>

\* The completion of store.delete, whose callback is the caller's.
RemoveKeyDelete(p) ==
    LET c == Served(calls[p], "delete")
    IN  /\ calls[p].pc = "remove.delete"
        /\ store' = StoreDelete(store, DsName(c.args.name))
        /\ calls' = [calls EXCEPT ![p] = Callback(c, NoErr, <<>>)]
        /\ UNCHANGED <<nextKey, chain, ctor>>

-----------------------------------------------------------------------------
(* renameKey *)

CallRenameKey(p, oldName, newName) ==
    LET c == Started("renameKey", [oldName |-> oldName, newName |-> newName], "call")
    IN  /\ Free(p)
        /\ calls' = [calls EXCEPT ![p] =
            IF ~validateKeyName(oldName) \/ oldName = Self
            THEN Callback(c, Error("Invalid old key name", oldName), <<>>)
            ELSE IF ~validateKeyName(newName) \/ newName = Self
            THEN Callback(c, Error("Invalid new key name", newName), <<>>)
            ELSE [c EXCEPT !.pc = "rename.get"]]
        /\ UNCHANGED <<store, nextKey, chain, ctor>>

\* The completion of store.get(oldDsname).
RenameKeyGet(p) ==
    LET c == Served(calls[p], "get")
        oldDsname == DsName(c.args.oldName)
    IN  /\ calls[p].pc = "rename.get"
        /\ calls' = [calls EXCEPT ![p] =
            IF ~StoreHas(oldDsname)
            THEN Callback(c, Error("Key does not exist", c.args.oldName), <<>>)
            ELSE [c EXCEPT !.pc = "rename.has", !.pem = store[oldDsname]]]
        /\ UNCHANGED <<store, nextKey, chain, ctor>>

\* A faulty completion of store.has(newDsname) that commits whatever the
\* answer.
RenameKeyHas_Unchecked(p) ==
    LET c == Served(calls[p], "has")
    IN  /\ calls[p].pc = "rename.has"
        /\ calls' = [calls EXCEPT ![p] = [c EXCEPT !.pc = "rename.commit"]]
        /\ UNCHANGED <<store, nextKey, chain, ctor>>

\* The completion of store.has(newDsname): the batch is built and committed.
RenameKeyHas(p) ==
    LET c == Served(calls[p], "has")
    IN  /\ calls[p].pc = "rename.has"
        /\ calls' = [calls EXCEPT ![p] =
            IF StoreHas(DsName(c.args.newName))
            THEN Callback(c, Error("Key already exists", c.args.newName), <<>>)
            ELSE [c EXCEPT !.pc = "rename.commit"]]
        /\ UNCHANGED <<store, nextKey, chain, ctor>>

\* A faulty batch that puts the new record and leaves the old one.
BatchPutDelete_PutOnly(s, newDsname, pem, oldDsname) == StorePut(s, newDsname, pem)

\* A faulty batch that deletes the old record and puts nothing.
BatchPutDelete_DeleteOnly(s, newDsname, pem, oldDsname) == StoreDelete(s, oldDsname)

\* batch.put(newDsname, pem); batch.delete(oldDsname), applied as one write
BatchPutDelete(s, newDsname, pem, oldDsname) ==
    StoreDelete(StorePut(s, newDsname, pem), oldDsname)

\* The completion of batch.commit, then _getKeyInfo(newName).
RenameKeyCommit(p) ==
    LET c == Served(calls[p], "commit")
    IN  /\ calls[p].pc = "rename.commit"
        /\ store' = BatchPutDelete(store, DsName(c.args.newName), c.pem,
                                   DsName(c.args.oldName))
        /\ calls' = [calls EXCEPT ![p] = GetKeyInfoCall(c, c.args.newName)]
        /\ UNCHANGED <<nextKey, chain, ctor>>

\* The completion of a batch.commit that the store reports as failed: the
\* batch is dropped, the error goes to the caller.
RenameKeyCommitFailed(p) ==
    LET c == Served(calls[p], "commit")
    IN  /\ calls[p].pc = "rename.commit"
        /\ calls' = [calls EXCEPT ![p] = Callback(c, Error("commit failed", <<>>), <<>>)]
        /\ UNCHANGED <<store, nextKey, chain, ctor>>

-----------------------------------------------------------------------------
(* exportKey *)

\* A faulty export that wraps the key with the DEK in place of the password.
ExportedPem_UnderDek(pem, password) ==
    encryptRsaPrivateKey(decryptRsaPrivateKey(pem, Dek), Dek)

\* The PEM exportKey hands out for a stored PEM: unwrap with the DEK, wrap
\* with the password.
ExportedPem(pem, password) ==
    encryptRsaPrivateKey(decryptRsaPrivateKey(pem, Dek), password)

CallExportKey(p, name, password) ==
    LET c == Started("exportKey", [name |-> name, password |-> password], "call")
    IN  /\ Free(p)
        /\ calls' = [calls EXCEPT ![p] =
            IF ~validateKeyName(name)
            THEN Callback(c, Error("Invalid key name", name), <<>>)
            ELSE IF password \in {Null, Text("")}
            THEN Callback(c, Error("Password is required", <<>>), <<>>)
            ELSE [c EXCEPT !.pc = "export.get"]]
        /\ UNCHANGED <<store, nextKey, chain, ctor>>

\* The completion of store.get.
ExportKeyGet(p) ==
    LET c == Served(calls[p], "get")
        dsname == DsName(c.args.name)
    IN  /\ calls[p].pc = "export.get"
        /\ calls' = [calls EXCEPT ![p] =
            IF ~StoreHas(dsname)
            THEN Callback(c, Error("Key does not exist", c.args.name), <<>>)
            ELSE IF DecryptThrows(store[dsname])
                    \/ decryptRsaPrivateKey(store[dsname], Dek) = Null
            THEN Callback(c, Error("exception", c.args.name), <<>>)
            ELSE Callback([c EXCEPT !.pem = store[dsname]], NoErr,
                          ExportedPem(store[dsname], c.args.password))]
        /\ UNCHANGED <<store, nextKey, chain, ctor>>

-----------------------------------------------------------------------------
(* _encrypt and _decrypt *)

\* A Buffer of len bytes; what is not a Buffer is Null or a Text.
Buffer(len, content) == <<"buffer", len, content>>
IsBuffer(v) == v[1] = "buffer"

\* RSA with PKCS #1 v1.5 padding takes at most the modulus less 11 bytes.
Pkcs1PaddingBytes == 11
ModulusBytes == MinRsaKeySize \div 8
MaxPlainLength == ModulusBytes - Pkcs1PaddingBytes

\* The random padding bytes of one encryption.
PaddingInputs == {"padding 1", "padding 2"}

\* crypto.publicEncrypt({key: pem, passphrase, padding}, plain) throws when
\* the passphrase does not open the PEM or the data is too large for the key.
PublicEncryptThrows(pem, passphrase, plain) ==
    \/ DecryptThrows(pem)
    \/ decryptRsaPrivateKey(pem, passphrase) = Null
    \/ plain[2] > MaxPlainLength
publicEncrypt(pem, passphrase, plain, padding) ==
    Buffer(ModulusBytes, <<"rsa-pkcs1", decryptRsaPrivateKey(pem, passphrase), plain, padding>>)

\* crypto.privateDecrypt({key: pem, passphrase, padding}, cipher) throws when
\* the passphrase does not open the PEM or the bytes are no encryption under
\* the key.
PrivateDecryptThrows(pem, passphrase, cipher) ==
    \/ DecryptThrows(pem)
    \/ decryptRsaPrivateKey(pem, passphrase) = Null
    \/ Len(cipher[3]) # 4
    \/ cipher[3][1] # "rsa-pkcs1"
    \/ cipher[3][2] # decryptRsaPrivateKey(pem, passphrase)
privateDecrypt(pem, passphrase, cipher) == cipher[3][3]

\* A faulty _encrypt that only asks for some data, buffer or not.
CallEncrypt_AnyData(p, name, plain) ==
    LET c == Started("_encrypt", [name |-> name, plain |-> plain], "call")
    IN  /\ Free(p)
        /\ calls' = [calls EXCEPT ![p] =
            IF ~validateKeyName(name)
            THEN Callback(c, Error("Invalid key name", name), <<>>)
            ELSE IF Falsy(plain)
            THEN Callback(c, Error("Data is required", <<>>), <<>>)
            ELSE [c EXCEPT !.pc = "encrypt.get"]]
        /\ UNCHANGED <<store, nextKey, chain, ctor>>

CallEncrypt(p, name, plain) ==
    LET c == Started("_encrypt", [name |-> name, plain |-> plain], "call")
    IN  /\ Free(p)
        /\ calls' = [calls EXCEPT ![p] =
            IF ~validateKeyName(name)
            THEN Callback(c, Error("Invalid key name", name), <<>>)
            ELSE IF ~IsBuffer(plain)
            THEN Callback(c, Error("Data is required", <<>>), <<>>)
            ELSE [c EXCEPT !.pc = "encrypt.get"]]
        /\ UNCHANGED <<store, nextKey, chain, ctor>>

\* The completion of store.get in _encrypt.
EncryptGet(p) ==
    LET c == Served(calls[p], "get")
        dsname == DsName(c.args.name)
    IN  /\ calls[p].pc = "encrypt.get"
        /\ \E padding \in PaddingInputs :
            calls' = [calls EXCEPT ![p] =
                IF ~StoreHas(dsname)
                THEN Callback(c, Error("Key does not exist", c.args.name), <<>>)
                ELSE IF PublicEncryptThrows(store[dsname], Dek, c.args.plain)
                THEN Callback([c EXCEPT !.pem = store[dsname]],
                              Error("exception", c.args.name), <<>>)
                ELSE Callback([c EXCEPT !.pem = store[dsname]], NoErr,
                        [algorithm |-> "RSA_PKCS1_PADDING",
                         cipherData |-> publicEncrypt(store[dsname], Dek,
                                                      c.args.plain, padding)])]
        /\ UNCHANGED <<store, nextKey, chain, ctor>>

CallDecrypt(p, name, cipher) ==
    LET c == Started("_decrypt", [name |-> name, cipher |-> cipher], "call")
    IN  /\ Free(p)
        /\ calls' = [calls EXCEPT ![p] =
            IF ~validateKeyName(name)
            THEN Callback(c, Error("Invalid key name", name), <<>>)
            ELSE IF ~IsBuffer(cipher)
            THEN Callback(c, Error("Data is required", <<>>), <<>>)
            ELSE [c EXCEPT !.pc = "decrypt.get"]]
        /\ UNCHANGED <<store, nextKey, chain, ctor>>

\* A faulty completion of store.get in _decrypt that hands the PEM to
\* privateDecrypt without the passphrase.
DecryptGet_NoPassphrase(p) ==
    LET c == Served(calls[p], "get")
        dsname == DsName(c.args.name)
    IN  /\ calls[p].pc = "decrypt.get"
        /\ calls' = [calls EXCEPT ![p] =
            IF ~StoreHas(dsname)
            THEN Callback(c, Error("Key does not exist", c.args.name), <<>>)
            ELSE IF PrivateDecryptThrows(store[dsname], Text(""), c.args.cipher)
            THEN Callback(c, Error("exception", c.args.name), <<>>)
            ELSE Callback(c, NoErr, privateDecrypt(store[dsname], Text(""), c.args.cipher))]
        /\ UNCHANGED <<store, nextKey, chain, ctor>>

\* The completion of store.get in _decrypt.
DecryptGet(p) ==
    LET c == Served(calls[p], "get")
        dsname == DsName(c.args.name)
    IN  /\ calls[p].pc = "decrypt.get"
        /\ calls' = [calls EXCEPT ![p] =
            IF ~StoreHas(dsname)
            THEN Callback(c, Error("Key does not exist", c.args.name), <<>>)
            ELSE IF PrivateDecryptThrows(store[dsname], Dek, c.args.cipher)
            THEN Callback(c, Error("exception", c.args.name), <<>>)
            ELSE Callback(c, NoErr, privateDecrypt(store[dsname], Dek, c.args.cipher))]
        /\ UNCHANGED <<store, nextKey, chain, ctor>>

-----------------------------------------------------------------------------
(* importKey *)

\* The pem argument left out.
MissingPem == [type |-> "missing", key |-> Null, pass |-> Text("")]

CallImportKey(p, name, pem, password) ==
    LET c == Started("importKey", [name |-> name, pem |-> pem, password |-> password],
                     "call")
    IN  /\ Free(p)
        /\ calls' = [calls EXCEPT ![p] =
            IF ~validateKeyName(name) \/ name = Self
            THEN Callback(c, Error("Invalid key name", name), <<>>)
            ELSE IF pem = MissingPem
            THEN Callback(c, Error("PEM encoded key is required", <<>>), <<>>)
            ELSE [c EXCEPT !.pc = "import.has"]]
        /\ UNCHANGED <<store, nextKey, chain, ctor>>

\* A faulty completion of store.has in importKey that takes a PEM the
\* password does not open for a key.
ImportKeyHas_NullKeyStored(p) ==
    LET c == Served(calls[p], "has")
        privateKey == decryptRsaPrivateKey(c.args.pem, c.args.password)
    IN  /\ calls[p].pc = "import.has"
        /\ calls' = [calls EXCEPT ![p] =
            IF StoreHas(DsName(c.args.name))
            THEN Callback(c, Error("Key already exists", c.args.name), <<>>)
            ELSE IF DecryptThrows(c.args.pem)
            THEN Callback(c, Error("exception", c.args.name), <<>>)
            ELSE [c EXCEPT !.pc = "import.put", !.key = privateKey,
                           !.pem = encryptRsaPrivateKey(privateKey, Dek)]]
        /\ UNCHANGED <<store, nextKey, chain, ctor>>

\* A faulty completion of store.has in importKey that stores the PEM as the
\* caller gave it.
ImportKeyHas_GivenPemStored(p) ==
    LET c == Served(calls[p], "has")
        privateKey == decryptRsaPrivateKey(c.args.pem, c.args.password)
    IN  /\ calls[p].pc = "import.has"
        /\ calls' = [calls EXCEPT ![p] =
            IF StoreHas(DsName(c.args.name))
            THEN Callback(c, Error("Key already exists", c.args.name), <<>>)
            ELSE IF DecryptThrows(c.args.pem)
            THEN Callback(c, Error("exception", c.args.name), <<>>)
            ELSE IF privateKey = Null
            THEN Callback(c, Error("Cannot read the key, most likely the password is wrong",
                                   <<>>), <<>>)
            ELSE [c EXCEPT !.pc = "import.put", !.key = privateKey,
                           !.pem = c.args.pem]]
        /\ UNCHANGED <<store, nextKey, chain, ctor>>

\* The completion of store.has: unwrap with the password, wrap with the DEK.
ImportKeyHas(p) ==
    LET c == Served(calls[p], "has")
        privateKey == decryptRsaPrivateKey(c.args.pem, c.args.password)
    IN  /\ calls[p].pc = "import.has"
        /\ calls' = [calls EXCEPT ![p] =
            IF StoreHas(DsName(c.args.name))
            THEN Callback(c, Error("Key already exists", c.args.name), <<>>)
            ELSE IF DecryptThrows(c.args.pem)
            THEN Callback(c, Error("exception", c.args.name), <<>>)
            ELSE IF privateKey = Null
            THEN Callback(c, Error("Cannot read the key, most likely the password is wrong",
                                   <<>>), <<>>)
            ELSE [c EXCEPT !.pc = "import.put", !.key = privateKey,
                           !.pem = encryptRsaPrivateKey(privateKey, Dek)]]
        /\ UNCHANGED <<store, nextKey, chain, ctor>>

\* The completion of store.put, then _getKeyInfo(name).
ImportKeyPut(p) ==
    LET c == Served(calls[p], "put")
    IN  /\ calls[p].pc = "import.put"
        /\ store' = StorePut(store, DsName(c.args.name), c.pem)
        /\ calls' = [calls EXCEPT ![p] = GetKeyInfoCall(c, c.args.name)]
        /\ UNCHANGED <<nextKey, chain, ctor>>

-----------------------------------------------------------------------------
(* importPeer *)

\* A peer identity: its private key and its id, the base58 multihash of the
\* protobuf of its public key.
PeerId(privKey) == [given |-> TRUE, privKey |-> privKey, id |-> <<"b58-multihash", privKey>>]
Alice == PeerId(PeerKey)
PublicOnlyPeer == [Alice EXCEPT !.privKey = Null]
NoPeer == [given |-> FALSE, privKey |-> Null, id |-> <<>>]

\* peer.marshalPrivKey() and libp2pCrypto.keys.unmarshalPrivateKey
marshalPrivKey(peer) == <<"protobuf", peer.privKey>>
unmarshalPrivateKey(protobuf) == protobuf[2]

CallImportPeer(p, name, peer) ==
    LET c == Started("importPeer", [name |-> name, peer |-> peer], "call")
    IN  /\ Free(p)
        /\ calls' = [calls EXCEPT ![p] =
            IF ~validateKeyName(name)
            THEN Callback(c, Error("Invalid key name", name), <<>>)
            ELSE IF ~peer.given \/ peer.privKey = Null
            THEN Callback(c, Error("Peer.privKey is required", <<>>), <<>>)
            ELSE [c EXCEPT !.pc = "peer.has"]]
        /\ UNCHANGED <<store, nextKey, chain, ctor>>

\* A faulty completion of store.has in importPeer that skips the duplicate
\* check.
ImportPeerHas_Unchecked(p) ==
    LET c == Served(calls[p], "has")
    IN  /\ calls[p].pc = "peer.has"
        /\ calls' = [calls EXCEPT ![p] = [c EXCEPT !.pc = "peer.unmarshal"]]
        /\ UNCHANGED <<store, nextKey, chain, ctor>>

\* The completion of store.has: the private key is handed to the peer codec.
ImportPeerHas(p) ==
    LET c == Served(calls[p], "has")
    IN  /\ calls[p].pc = "peer.has"
        /\ calls' = [calls EXCEPT ![p] =
            IF StoreHas(DsName(c.args.name))
            THEN Callback(c, Error("Key already exists", c.args.name), <<>>)
            ELSE [c EXCEPT !.pc = "peer.unmarshal"]]
        /\ UNCHANGED <<store, nextKey, chain, ctor>>

\* The completion of unmarshalPrivateKey: DER to forge key, wrap with the DEK.
ImportPeerUnmarshalled(p) ==
    LET c == calls[p]
        privateKey == unmarshalPrivateKey(marshalPrivKey(c.args.peer))
    IN  /\ c.pc = "peer.unmarshal"
        /\ calls' = [calls EXCEPT ![p] =
            IF privateKey = Null
            THEN Callback(c, Error("Cannot read the peer private key", <<>>), <<>>)
            ELSE [c EXCEPT !.pc = "peer.put", !.key = privateKey,
                           !.pem = encryptRsaPrivateKey(privateKey, Dek)]]
        /\ UNCHANGED <<store, nextKey, chain, ctor>>

\* The completion of store.put, then _getKeyInfo(name).
ImportPeerPut(p) ==
    LET c == Served(calls[p], "put")
    IN  /\ calls[p].pc = "peer.put"
        /\ store' = StorePut(store, DsName(c.args.name), c.pem)
        /\ calls' = [calls EXCEPT ![p] = GetKeyInfoCall(c, c.args.name)]
        /\ UNCHANGED <<nextKey, chain, ctor>>

-----------------------------------------------------------------------------
(* listKeys and findKeyById *)

\* The orders in which a query may deliver the keys of the set S.
Orderings(S) ==
    {f \in [1..Cardinality(S) -> S] : \A i, j \in DOMAIN f : i # j => f[i] # f[j]}

\* A faulty find that takes the first key whatever its id.
Find_FirstKey(keys, id) == IF keys = <<>> THEN NoInfo ELSE Head(keys)

\* keys.find((k) => k.id === id), undefined (NoInfo) when there is none
RECURSIVE Find(_, _)
Find(keys, id) ==
    IF keys = <<>> THEN NoInfo
    ELSE IF Head(keys).id = id THEN Head(keys)
    ELSE Find(Tail(keys), id)

\* A faulty callback of listKeys that loses the last key.
ListKeysCallback_LastKeyLost(c, err, keys) ==
    IF c.op = "findKeyById"
    THEN IF err # NoErr THEN Callback(c, err, <<>>)
         ELSE Callback(c, NoErr, Find(keys, c.args.id))
    ELSE Callback(c, err, IF keys = <<>> THEN keys ELSE SubSeq(keys, 1, Len(keys) - 1))

\* The callback of listKeys: the caller's, or the one findKeyById passes.
ListKeysCallback(c, err, keys) ==
    IF c.op = "findKeyById"
    THEN IF err # NoErr THEN Callback(c, err, <<>>)
         ELSE Callback(c, NoErr, Find(keys, c.args.id))
    ELSE Callback(c, err, keys)

CallListKeys(p) ==
    /\ Free(p)
    /\ calls' = [calls EXCEPT ![p] = Started("listKeys", <<>>, "list.query")]
    /\ UNCHANGED <<store, nextKey, chain, ctor>>

CallFindKeyById(p, id) ==
    /\ Free(p)
    /\ calls' = [calls EXCEPT ![p] = Started("findKeyById", [id |-> id], "list.query")]
    /\ UNCHANGED <<store, nextKey, chain, ctor>>

\* The query delivered all the keys: async.map starts _getKeyInfo for each name.
ListKeysQuery(p) ==
    LET c == Served(calls[p], "query")
    IN  /\ calls[p].pc = "list.query"
        /\ \E res \in Orderings(DOMAIN store) :
            LET names == [i \in DOMAIN res |-> KsName(res[i])]
            IN  calls' = [calls EXCEPT ![p] =
                    IF names = <<>>
                    THEN ListKeysCallback(c, NoErr, <<>>)
                    ELSE IF \E i \in DOMAIN names : ~validateKeyName(names[i])
                    THEN ListKeysCallback(c, Error("Invalid key name", <<>>), <<>>)
                    ELSE [c EXCEPT !.pc = "list.get", !.names = names]]
        /\ UNCHANGED <<store, nextKey, chain, ctor>>

\* The completion of the store.get of the next name: its KeyInfo joins the
\* results, the first error ends the map.
ListKeysGet(p) ==
    LET c == Served(calls[p], "get")
        name == c.names[Len(c.infos) + 1]
        d == GetKeyInfoDone(c, name)
        keys == Append(c.infos, d.val)
    IN  /\ calls[p].pc = "list.get"
        /\ calls' = [calls EXCEPT ![p] =
            IF d.err # NoErr
            THEN ListKeysCallback([c EXCEPT !.infos = <<>>], d.err, <<>>)
            ELSE IF Len(keys) = Len(c.names)
            THEN ListKeysCallback([c EXCEPT !.infos = <<>>], NoErr, keys)
            ELSE [c EXCEPT !.infos = keys]]
        /\ UNCHANGED <<store, nextKey, chain, ctor>>

-----------------------------------------------------------------------------
(* CMS: createAnonymousEncryptedData and readCmsData *)

\* buffer.toString('binary') and Buffer.from(string, 'binary'): one character
\* for every byte and back.
toBinaryString(buffer) == <<"binary-string", buffer[2], buffer[3]>>
fromBinaryString(string) == Buffer(string[2], string[3])

\* util.certificateForKey: the self-signed certificate of the key, its
\* subject and issuer are O=ipfs, OU=keystore, CN=<key id>.
Attr(shortName, value) == [shortName |-> shortName, value |-> value]
certificateForKey_NoCommonName(privateKey) ==
    [publicKey |-> privateKey, serialNumber |-> "01",
     issuer |-> <<Attr("O", Text("ipfs")), Attr("OU", Text("keystore"))>>]
certificateForKey(privateKey) ==
    [publicKey |-> privateKey, serialNumber |-> "01",
     issuer |-> <<Attr("O", Text("ipfs")), Attr("OU", Text("keystore")),
                  Attr("CN", keyId(privateKey))>>]

\* p7.addRecipient(certificate): the recipient is named by the issuer and the
\* serial number of the certificate; the content key is encrypted to its
\* public key.
Recipient(certificate) ==
    [issuer |-> certificate.issuer, serialNumber |-> certificate.serialNumber,
     key |-> certificate.publicKey]

\* The DER bytes of a PKCS #7 message: EnvelopedData with its recipients and
\* the encrypted content, or a message of another content type.
EnvelopedData(recipients, content, padding) ==
    Buffer(ModulusBytes + content[2],
           <<"pkcs7", "envelopedData", recipients, content, padding>>)
SignedData(content) ==
    Buffer(content[2], <<"pkcs7", "signedData", content>>)

\* forge.asn1.fromDer and forge.pkcs7.messageFromAsn1 throw for bytes that
\* are no PKCS #7 ContentInfo; the message of an EnvelopedData has
\* recipients, the message of any other content type has none.
MessageFromAsn1Throws(cmsData) ==
    Len(cmsData[3]) = 0 \/ cmsData[3][1] # "pkcs7"
HasRecipients(cmsData) == cmsData[3][2] = "envelopedData"
RecipientsOf(cmsData) == cmsData[3][3]
ContentOf(cmsData) == cmsData[3][4]

\* r.issuer.find(a => a.shortName === shortName)
RECURSIVE FindAttr(_, _)
FindAttr(issuer, shortName) ==
    IF issuer = <<>> THEN <<>>
    ELSE IF Head(issuer).shortName = shortName THEN <<Head(issuer)>>
    ELSE FindAttr(Tail(issuer), shortName)

\* A faulty filter that takes the recipients of every issuer.
IssuedByIpfs_Anyone(r) == r.issuer # <<>>

\* r.issuer.find(a => a.shortName === 'O' && a.value === 'ipfs')
IssuedByIpfs(r) ==
    \E i \in DOMAIN r.issuer :
        r.issuer[i].shortName = "O" /\ r.issuer[i].value = Text("ipfs")

\* The recipients whose certificate this keystore may have issued, each with
\* the key id its issuer names.
CandidateRecipients(recipients) ==
    LET ours == SelectSeq(recipients,
                    LAMBDA r : IssuedByIpfs(r) /\ FindAttr(r.issuer, "CN") # <<>>)
    IN  [i \in DOMAIN ours |->
            [recipient |-> ours[i], keyId |-> FindAttr(ours[i].issuer, "CN")[1].value]]

\* A faulty choice of keystore: every call reads the store of ks.
Keystore_SharedStore(c) == store

\* The keystore a readCmsData is called on: ks, whose store the other
\* operations write, or emptyKeystore, whose store nothing writes.
KeystoreInputs == {"ks", "emptyKeystore"}
Keystore(c) == IF c.args.ks = "emptyKeystore" THEN EmptyStore ELSE store

CallCreateAnonymousEncryptedData(p, name, plain) ==
    LET c == Started("createAnonymousEncryptedData",
                     [name |-> name, plain |-> plain], "call")
    IN  /\ Free(p)
        /\ calls' = [calls EXCEPT ![p] =
            IF ~validateKeyName(name)
            THEN Callback(c, Error("Invalid key name", name), <<>>)
            ELSE IF ~IsBuffer(plain)
            THEN Callback(c, Error("Data is required", <<>>), <<>>)
            ELSE [c EXCEPT !.pc = "cms.get"]]
        /\ UNCHANGED <<store, nextKey, chain, ctor>>

\* The key was read: its certificate is the one recipient of the enveloped
\* message, whose content is the data.
CreateAnonymousEncryptedDataGet(p) ==
    LET c == Served(calls[p], "get")
        dsname == DsName(c.args.name)
    IN  /\ calls[p].pc = "cms.get"
        /\ \E padding \in PaddingInputs :
            calls' = [calls EXCEPT ![p] =
                IF ~StoreHas(dsname)
                THEN Callback(c, Error("Key does not exist", c.args.name), <<>>)
                ELSE IF \/ DecryptThrows(store[dsname])
                        \/ decryptRsaPrivateKey(store[dsname], Dek) = Null
                THEN Callback([c EXCEPT !.pem = store[dsname]],
                              Error("exception", c.args.name), <<>>)
                ELSE LET privateKey == decryptRsaPrivateKey(store[dsname], Dek)
                     IN  Callback([c EXCEPT !.pem = store[dsname]], NoErr,
                            EnvelopedData(
                                <<Recipient(certificateForKey(privateKey))>>,
                                toBinaryString(c.args.plain), padding))]
        /\ UNCHANGED <<store, nextKey, chain, ctor>>

\* async.detect over the candidates: findKeyById of the first one, or the
\* 'No key found' error when there is none.
DetectRecipient(c, candidates) ==
    IF candidates = <<>>
    THEN Callback(c, Error("No key found for decryption", <<>>), <<>>)
    ELSE [c EXCEPT !.pc = "read.detect.query", !.args.candidates = candidates,
                   !.names = <<>>, !.infos = <<>>]

CallReadCmsData(p, ks, cmsData) ==
    LET c == Started("readCmsData",
                     [ks |-> ks, cmsData |-> cmsData, candidates |-> <<>>,
                      found |-> NoInfo], "call")
    IN  /\ Free(p)
        /\ calls' = [calls EXCEPT ![p] =
            IF ~IsBuffer(cmsData)
            THEN Callback(c, Error("CMS data is required", <<>>), <<>>)
            ELSE IF MessageFromAsn1Throws(cmsData)
            THEN Callback(c, Error("Invalid CMS", <<>>), <<>>)
            ELSE IF ~HasRecipients(cmsData)
            THEN Crash(c)
            ELSE DetectRecipient(c, CandidateRecipients(RecipientsOf(cmsData)))]
        /\ UNCHANGED <<store, nextKey, chain, ctor>>

\* The callback of a findKeyById of readCmsData. In async.detect a key makes
\* its recipient the chosen one, which the waterfall then looks up again; no
\* key or an error passes on to the next candidate. In the waterfall the
\* name of the key is taken, of no key as well.
ReadCmsDataFound(c, err, keys) ==
    LET key == Find(keys, Head(c.args.candidates).keyId)
        d == [c EXCEPT !.names = <<>>, !.infos = <<>>]
    IN  IF c.pc \in {"read.detect.query", "read.detect.get"}
        THEN IF err = NoErr /\ key # NoInfo
             THEN [d EXCEPT !.pc = "read.find.query"]
             ELSE DetectRecipient(d, Tail(c.args.candidates))
        ELSE IF err # NoErr THEN Callback(d, err, <<>>)
        ELSE IF key = NoInfo THEN Crash(d)
        ELSE [d EXCEPT !.pc = "read.key", !.args.found = key]

\* The query of listKeys in a findKeyById of readCmsData.
ReadCmsDataQuery(p) ==
    LET c == Served(calls[p], "query")
    IN  /\ calls[p].pc \in {"read.detect.query", "read.find.query"}
        /\ \E res \in Orderings(DOMAIN Keystore(c)) :
            LET names == [i \in DOMAIN res |-> KsName(res[i])]
            IN  calls' = [calls EXCEPT ![p] =
                    IF names = <<>>
                    THEN ReadCmsDataFound(c, NoErr, <<>>)
                    ELSE IF \E i \in DOMAIN names : ~validateKeyName(names[i])
                    THEN ReadCmsDataFound(c, Error("Invalid key name", <<>>), <<>>)
                    ELSE [c EXCEPT !.names = names,
                            !.pc = IF c.pc = "read.detect.query"
                                   THEN "read.detect.get" ELSE "read.find.get"]]
        /\ UNCHANGED <<store, nextKey, chain, ctor>>

\* The _getKeyInfo of the next name in a findKeyById of readCmsData.
ReadCmsDataGet(p) ==
    LET c == Served(calls[p], "get")
        name == c.names[Len(c.infos) + 1]
        d == GetKeyInfoDone(c, name)
        keys == Append(c.infos, d.val)
    IN  /\ calls[p].pc \in {"read.detect.get", "read.find.get"}
        /\ calls' = [calls EXCEPT ![p] =
            IF d.err # NoErr THEN ReadCmsDataFound(c, d.err, <<>>)
            ELSE IF Len(keys) = Len(c.names) THEN ReadCmsDataFound(c, NoErr, keys)
            ELSE [c EXCEPT !.infos = keys]]
        /\ UNCHANGED <<store, nextKey, chain, ctor>>

\* cms.decrypt(recipient, privateKey) throws when the private key is none or
\* does not decrypt the content key of the recipient.
CmsDecryptThrows(recipient, privateKey) ==
    privateKey = Null \/ privateKey # recipient.key

\* The key of the chosen recipient was read: decrypt the content with it.
\* What throws here is caught by nobody.
ReadCmsDataKey(p) ==
    LET c == Served(calls[p], "get")
        dsname == DsName(c.args.found.name)
        r == Head(c.args.candidates)
    IN  /\ calls[p].pc = "read.key"
        /\ calls' = [calls EXCEPT ![p] =
            IF ~StoreHas(dsname)
            THEN Callback(c, Error("Key does not exist", c.args.found.name), <<>>)
            ELSE IF DecryptThrows(store[dsname])
            THEN Crash(c)
            ELSE IF CmsDecryptThrows(r.recipient,
                                     decryptRsaPrivateKey(store[dsname], Dek))
            THEN Crash(c)
            ELSE [c EXCEPT !.pc = "read.immediate", !.pem = store[dsname],
                           !.key = decryptRsaPrivateKey(store[dsname], Dek)]]
        /\ UNCHANGED <<store, nextKey, chain, ctor>>

\* A faulty end of readCmsData that deletes the key it decrypted with.
ReadCmsDataImmediate_KeyDeleted(p) ==
    LET c == calls[p]
    IN  /\ c.pc = "read.immediate"
        /\ calls' = [calls EXCEPT ![p] =
                Callback(c, NoErr, fromBinaryString(ContentOf(c.args.cmsData)))]
        /\ store' = StoreDelete(store, DsName(c.args.found.name))
        /\ UNCHANGED <<nextKey, chain, ctor>>

\* async.setImmediate: the callback gets the content as a buffer.
ReadCmsDataImmediate(p) ==
    LET c == calls[p]
    IN  /\ c.pc = "read.immediate"
        /\ calls' = [calls EXCEPT ![p] =
                Callback(c, NoErr, fromBinaryString(ContentOf(c.args.cmsData)))]
        /\ UNCHANGED <<store, nextKey, chain, ctor>>

-----------------------------------------------------------------------------
(* What the callers pass *)

NameInputs ==
    {Null, Undefined, <<>>, <<" ", " ">>, <<".", ".", "/", "a">>,
     <<"a">>, <<"b">>, Self}
TypeInputs == {Rsa, <<"R", "S", "A">>, <<"d", "s", "a">>, Null}
SizeInputs == {1024, 2048}
PasswordInputs == {Text("password"), Text("not the password")}
ExportPasswordInputs == {Text("password"), Text("")}
PeerInputs == {Alice, PublicOnlyPeer, NoPeer}

\* The PEMs a caller can hold: what exportKey gives for a stored key under
\* the password 'password', bytes that are no PEM, and no PEM at all.
PemInputs ==
    {MissingPem, NotPem}
    \cup {ExportedPem(store[k], Text("password")) : k \in DOMAIN store}

\* The ids a caller can look for: of a generated key, of the peer (in both
\* id schemes).
IdInputs ==
    {keyId(GeneratedKey(n)) : n \in 1..MaxKeys} \cup {keyId(PeerKey), Alice.id}

-----------------------------------------------------------------------------
(* The key chain used by one caller at a time *)

Init ==
    /\ store = EmptyStore
    /\ calls = [p \in Procs |-> Idle]
    /\ nextKey = 0
    /\ chain = TestChain
    /\ ctor = [called |-> TRUE, hasStore |-> TRUE, options |-> TestOptions, err |-> ""]

\* No other caller has an operation in flight.
Alone(p) == \A q \in Procs \ {p} : Free(q)

Next ==
    \E p \in {1} :
        \/ \E n \in NameInputs, t \in TypeInputs, s \in SizeInputs :
                Alone(p) /\ CallCreateKey(p, n, t, s)
        \/ CreateKeyHas(p)
        \/ CreateKeyGenerated(p)
        \/ CreateKeyPut(p)
        \/ GetKeyInfo(p)
        \/ \E n \in NameInputs : Alone(p) /\ CallFindKeyByName(p, n)
        \/ \E n \in NameInputs : Alone(p) /\ CallRemoveKey(p, n)
        \/ RemoveKeyHas(p)
        \/ RemoveKeyDelete(p)
        \/ \E o \in NameInputs, n \in NameInputs : Alone(p) /\ CallRenameKey(p, o, n)
        \/ RenameKeyGet(p)
        \/ RenameKeyHas(p)
        \/ RenameKeyCommit(p)
        \/ \E n \in NameInputs, w \in ExportPasswordInputs :
                Alone(p) /\ CallExportKey(p, n, w)
        \/ ExportKeyGet(p)
        \/ \E n \in NameInputs, m \in PemInputs, w \in PasswordInputs :
                Alone(p) /\ CallImportKey(p, n, m, w)
        \/ ImportKeyHas(p)
        \/ ImportKeyPut(p)
        \/ \E n \in NameInputs, r \in PeerInputs : Alone(p) /\ CallImportPeer(p, n, r)
        \/ ImportPeerHas(p)
        \/ ImportPeerUnmarshalled(p)
        \/ ImportPeerPut(p)
        \/ Alone(p) /\ CallListKeys(p)
        \/ \E i \in IdInputs : Alone(p) /\ CallFindKeyById(p, i)
        \/ ListKeysQuery(p)
        \/ ListKeysGet(p)

Spec == Init /\ [][Next]_vars

-----------------------------------------------------------------------------
(* The constructor called with every combination of arguments *)

InitCtor ==
    /\ store = EmptyStore
    /\ calls = [p \in Procs |-> Idle]
    /\ nextKey = 0
    /\ chain = NoChain
    /\ ctor = NoCtor

NextCtor == \E hasStore \in BOOLEAN, options \in OptionsInputs : Construct(hasStore, options)

SpecCtor == InitCtor /\ [][NextCtor]_vars

-----------------------------------------------------------------------------
(* Two callers, each calling createKey once, at any time *)

ConcurrentNameInputs == {<<"a">>, <<"b">>}
ConcurrentTypeInputs == {Rsa, <<"R", "S", "A">>}

NextConcurrentCreate ==
    \E p \in Procs :
        \/ \E n \in ConcurrentNameInputs, t \in ConcurrentTypeInputs :
                calls[p].pc = "idle" /\ CallCreateKey(p, n, t, MinRsaKeySize)
        \/ CreateKeyHas(p)
        \/ CreateKeyGenerated(p)
        \/ CreateKeyPut(p)
        \/ GetKeyInfo(p)

SpecConcurrentCreate == Init /\ [][NextConcurrentCreate]_vars

-----------------------------------------------------------------------------
(* One operation of caller 1 among the operations of caller 2, one call at
   a time, all with valid names *)

FollowUpNameInputs == {<<"a">>, <<"b">>}

\* The PEMs exported from the stored keys under the password 'password'.
ExportedPemInputs == {ExportedPem(store[k], Text("password")) : k \in DOMAIN store}

NextFollowUp ==
    \/ \E n \in FollowUpNameInputs :
            calls[1].pc = "idle" /\ Alone(1) /\ CallCreateKey(1, n, Rsa, MinRsaKeySize)
    \/ \E n \in FollowUpNameInputs :
            calls[1].pc = "idle" /\ Alone(1) /\ CallRemoveKey(1, n)
    \/ \E o \in FollowUpNameInputs, n \in FollowUpNameInputs :
            calls[1].pc = "idle" /\ Alone(1) /\ CallRenameKey(1, o, n)
    \/ \E n \in FollowUpNameInputs : Alone(2) /\ CallCreateKey(2, n, Rsa, MinRsaKeySize)
    \/ \E n \in FollowUpNameInputs : Alone(2) /\ CallRemoveKey(2, n)
    \/ \E o \in FollowUpNameInputs, n \in FollowUpNameInputs :
            Alone(2) /\ CallRenameKey(2, o, n)
    \/ \E n \in FollowUpNameInputs, m \in ExportedPemInputs :
            Alone(2) /\ CallImportKey(2, n, m, Text("password"))
    \/ \E n \in FollowUpNameInputs : Alone(2) /\ CallImportPeer(2, n, Alice)
    \/ \E n \in FollowUpNameInputs : Alone(2) /\ CallFindKeyByName(2, n)
    \/ Alone(2) /\ CallListKeys(2)
    \/ \E p \in Procs :
        \/ CreateKeyHas(p)
        \/ CreateKeyGenerated(p)
        \/ CreateKeyPut(p)
        \/ GetKeyInfo(p)
        \/ RemoveKeyHas(p)
        \/ RemoveKeyDelete(p)
        \/ RenameKeyGet(p)
        \/ RenameKeyHas(p)
        \/ RenameKeyCommit(p)
        \/ ImportKeyHas(p)
        \/ ImportKeyPut(p)
        \/ ImportPeerHas(p)
        \/ ImportPeerUnmarshalled(p)
        \/ ImportPeerPut(p)
        \/ ListKeysQuery(p)
        \/ ListKeysGet(p)

SpecFollowUp == Init /\ [][NextFollowUp]_vars

-----------------------------------------------------------------------------
(* Caller 1 creates and renames keys, one call at a time, while caller 2
   reads at any time; a commit may fail *)

NextConcurrentRename ==
    \/ \E n \in FollowUpNameInputs : CallCreateKey(1, n, Rsa, MinRsaKeySize)
    \/ \E o \in FollowUpNameInputs, n \in FollowUpNameInputs : CallRenameKey(1, o, n)
    \/ \E n \in FollowUpNameInputs : CallFindKeyByName(2, n)
    \/ CallListKeys(2)
    \/ \E p \in Procs :
        \/ CreateKeyHas(p)
        \/ CreateKeyGenerated(p)
        \/ CreateKeyPut(p)
        \/ GetKeyInfo(p)
        \/ RenameKeyGet(p)
        \/ RenameKeyHas(p)
        \/ RenameKeyCommit(p)
        \/ RenameKeyCommitFailed(p)
        \/ ListKeysQuery(p)
        \/ ListKeysGet(p)

SpecConcurrentRename == Init /\ [][NextConcurrentRename]_vars

-----------------------------------------------------------------------------
(* One _encrypt of caller 1 among the operations of caller 2, which holds
   what caller 1 got; one call at a time *)

\* The test's message, the longest data RSA takes and one byte more, the
\* empty buffer, and what is no buffer.
DataInputs ==
    {Buffer(32, <<"plain", "This a message from Alice to Bob">>),
     Buffer(0, <<"plain", "">>),
     Buffer(MaxPlainLength, <<"plain", "as long as RSA takes">>),
     Buffer(MaxPlainLength + 1, <<"plain", "one byte more than RSA takes">>),
     Null, Text("not a buffer")}

\* The cipher data caller 1 got, bytes that are no encryption, no buffer.
CipherInputs ==
    {Buffer(ModulusBytes, <<"noise">>), Null}
    \cup (IF calls[1].op = "_encrypt" /\ Succeeded(calls[1])
          THEN {calls[1].val.cipherData} ELSE {})

NextCipher ==
    \/ \E n \in FollowUpNameInputs, d \in DataInputs :
            calls[1].pc = "idle" /\ Alone(1) /\ CallEncrypt(1, n, d)
    \/ \E n \in FollowUpNameInputs : Alone(2) /\ CallCreateKey(2, n, Rsa, MinRsaKeySize)
    \/ \E n \in FollowUpNameInputs : Alone(2) /\ CallRemoveKey(2, n)
    \/ \E n \in FollowUpNameInputs : Alone(2) /\ CallImportPeer(2, n, Alice)
    \/ \E n \in FollowUpNameInputs, x \in CipherInputs : Alone(2) /\ CallDecrypt(2, n, x)
    \/ \E p \in Procs :
        \/ EncryptGet(p)
        \/ DecryptGet(p)
        \/ CreateKeyHas(p)
        \/ CreateKeyGenerated(p)
        \/ CreateKeyPut(p)
        \/ GetKeyInfo(p)
        \/ RemoveKeyHas(p)
        \/ RemoveKeyDelete(p)
        \/ ImportPeerHas(p)
        \/ ImportPeerUnmarshalled(p)
        \/ ImportPeerPut(p)

SpecCipher == Init /\ [][NextCipher]_vars

-----------------------------------------------------------------------------
(* One exportKey of caller 1 among the operations of caller 2, which holds
   the PEM caller 1 got; one call at a time *)

\* The PEM caller 1 got from exportKey, and bytes that are no PEM.
HeldPemInputs ==
    {NotPem} \cup (IF calls[1].op = "exportKey" /\ Succeeded(calls[1])
                   THEN {calls[1].val} ELSE {})

NextExportImport ==
    \/ \E n \in FollowUpNameInputs, w \in PasswordInputs \cup {Text("")} :
            calls[1].pc = "idle" /\ Alone(1) /\ CallExportKey(1, n, w)
    \/ \E n \in FollowUpNameInputs : Alone(2) /\ CallCreateKey(2, n, Rsa, MinRsaKeySize)
    \/ \E n \in FollowUpNameInputs : Alone(2) /\ CallRemoveKey(2, n)
    \/ \E n \in FollowUpNameInputs, m \in HeldPemInputs, w \in PasswordInputs :
            Alone(2) /\ CallImportKey(2, n, m, w)
    \/ \E p \in Procs :
        \/ ExportKeyGet(p)
        \/ ImportKeyHas(p)
        \/ ImportKeyPut(p)
        \/ CreateKeyHas(p)
        \/ CreateKeyGenerated(p)
        \/ CreateKeyPut(p)
        \/ GetKeyInfo(p)
        \/ RemoveKeyHas(p)
        \/ RemoveKeyDelete(p)

SpecExportImport == Init /\ [][NextExportImport]_vars

-----------------------------------------------------------------------------
(* One createAnonymousEncryptedData of caller 1 among the operations of
   caller 2, which holds what caller 1 got, one call at a time *)

\* The data to protect: the message of the tests, no bytes, more bytes than
\* one RSA block takes, and a string.
PlainInputs ==
    {Buffer(35, <<"plain", "This is a message from Alice to Bob">>),
     Buffer(0, <<"plain", "">>),
     Buffer(MaxPlainLength + 1, <<"plain", "one byte more than RSA takes">>),
     Text("not a buffer")}

\* An enveloped message whose only recipient was not issued by a keystore,
\* though its issuer names the id of the first generated key.
ForeignEnvelope ==
    EnvelopedData(
        <<[issuer |-> <<Attr("O", Text("other")), Attr("CN", keyId(GeneratedKey(1)))>>,
           serialNumber |-> "01", key |-> GeneratedKey(1)]>>,
        toBinaryString(Buffer(5, <<"plain", "other">>)), "padding 1")

\* An enveloped message whose only recipient has the issuer O=ipfs and no CN.
NamelessEnvelope ==
    EnvelopedData(
        <<[issuer |-> <<Attr("O", Text("ipfs")), Attr("OU", Text("keystore"))>>,
           serialNumber |-> "01", key |-> GeneratedKey(1)]>>,
        toBinaryString(Buffer(5, <<"plain", "other">>)), "padding 1")

\* What readCmsData is given: a string, the plain data, a PKCS #7 message
\* that is no EnvelopedData, two foreign envelopes, and the envelope caller 1
\* got.
CmsInputs ==
    {Text("not CMS"),
     Buffer(35, <<"plain", "This is a message from Alice to Bob">>),
     SignedData(toBinaryString(Buffer(5, <<"plain", "other">>))),
     ForeignEnvelope, NamelessEnvelope}
    \cup (IF calls[1].op = "createAnonymousEncryptedData" /\ Succeeded(calls[1])
          THEN {calls[1].val} ELSE {})

NextCms ==
    \/ \E n \in FollowUpNameInputs, d \in PlainInputs :
            /\ calls[1].pc = "idle" /\ Alone(1)
            /\ CallCreateAnonymousEncryptedData(1, n, d)
    \/ \E n \in FollowUpNameInputs : Alone(2) /\ CallCreateKey(2, n, Rsa, MinRsaKeySize)
    \/ \E n \in FollowUpNameInputs : Alone(2) /\ CallRemoveKey(2, n)
    \/ \E ks \in KeystoreInputs, x \in CmsInputs : Alone(2) /\ CallReadCmsData(2, ks, x)
    \/ \E p \in Procs :
        \/ CreateAnonymousEncryptedDataGet(p)
        \/ ReadCmsDataQuery(p)
        \/ ReadCmsDataGet(p)
        \/ ReadCmsDataKey(p)
        \/ ReadCmsDataImmediate(p)
        \/ CreateKeyHas(p)
        \/ CreateKeyGenerated(p)
        \/ CreateKeyPut(p)
        \/ GetKeyInfo(p)
        \/ RemoveKeyHas(p)
        \/ RemoveKeyDelete(p)

SpecCms == Init /\ [][NextCms]_vars

-----------------------------------------------------------------------------
(* The operations that write the store, one call at a time *)

\* The PEMs given to importKey: the private key of the peer not encrypted,
\* bytes that are no PEM, and the stored keys exported under 'password'.
WrittenPemInputs == {PlainPem(PeerKey), NotPem} \cup ExportedPemInputs

NextWrites ==
    \E p \in {1} :
        \/ \E n \in FollowUpNameInputs : CallCreateKey(p, n, Rsa, MinRsaKeySize)
        \/ \E n \in FollowUpNameInputs : CallRemoveKey(p, n)
        \/ \E o \in FollowUpNameInputs, n \in FollowUpNameInputs : CallRenameKey(p, o, n)
        \/ \E n \in FollowUpNameInputs, m \in WrittenPemInputs, w \in PasswordInputs :
                CallImportKey(p, n, m, w)
        \/ \E n \in FollowUpNameInputs : CallImportPeer(p, n, Alice)
        \/ CreateKeyHas(p)
        \/ CreateKeyGenerated(p)
        \/ CreateKeyPut(p)
        \/ GetKeyInfo(p)
        \/ RemoveKeyHas(p)
        \/ RemoveKeyDelete(p)
        \/ RenameKeyGet(p)
        \/ RenameKeyHas(p)
        \/ RenameKeyCommit(p)
        \/ ImportKeyHas(p)
        \/ ImportKeyPut(p)
        \/ ImportPeerHas(p)
        \/ ImportPeerUnmarshalled(p)
        \/ ImportPeerPut(p)

SpecWrites == Init /\ [][NextWrites]_vars

-----------------------------------------------------------------------------
(* The operations of the export and import, and the property '_' called
   as a function by caller 2 *)

CallDekAccessor(p) ==
    /\ Free(p)
    /\ calls' = [calls EXCEPT ![p] =
            Callback(Started("_", <<>>, "call"), NoErr, DekAccessor(chain))]
    /\ UNCHANGED <<store, nextKey, chain, ctor>>

NextSurface ==
    \/ NextExportImport
    \/ Alone(2) /\ CallDekAccessor(2)

SpecSurface == Init /\ [][NextSurface]_vars

-----------------------------------------------------------------------------
(* createKey and removeKey over a store whose requests may fail *)

\* store.has of createKey called back with an error and exists undefined:
\* the handler looks at exists only, and goes on as for an absent name.
CreateKeyHasFailed(p) ==
    LET c == Served(calls[p], "has failed")
    IN  /\ calls[p].pc = "create.has"
        /\ calls' = [calls EXCEPT ![p] =
            IF c.args.type \in {Null, Undefined}
            THEN Crash(c)
            ELSE IF ToLowerCase(c.args.type) = Rsa
            THEN IF c.args.size < MinRsaKeySize
                 THEN Callback(c, Error("Invalid RSA key size", <<c.args.size>>), <<>>)
                 ELSE [c EXCEPT !.pc = "create.gen"]
            ELSE Callback(c, Error("Invalid key type", c.args.type), <<>>)]
        /\ UNCHANGED <<store, nextKey, chain, ctor>>

\* store.put of createKey called back with an error: the callback gets it.
CreateKeyPutFailed(p) ==
    LET c == Served(calls[p], "put failed")
    IN  /\ calls[p].pc = "create.put"
        /\ calls' = [calls EXCEPT ![p] = Callback(c, Error("put failed", <<>>), <<>>)]
        /\ UNCHANGED <<store, nextKey, chain, ctor>>

\* store.has of removeKey called back with an error and exists undefined:
\* the callback gets the 'does not exist' error.
RemoveKeyHasFailed(p) ==
    LET c == Served(calls[p], "has failed")
    IN  /\ calls[p].pc = "remove.has"
        /\ calls' = [calls EXCEPT ![p] =
                Callback(c, Error("Key does not exist", c.args.name), <<>>)]
        /\ UNCHANGED <<store, nextKey, chain, ctor>>

NextStoreFaults ==
    \E p \in {1} :
        \/ \E n \in FollowUpNameInputs, t \in TypeInputs :
                CallCreateKey(p, n, t, MinRsaKeySize)
        \/ \E n \in FollowUpNameInputs : CallRemoveKey(p, n)
        \/ CreateKeyHas(p)
        \/ CreateKeyHasFailed(p)
        \/ CreateKeyGenerated(p)
        \/ CreateKeyPut(p)
        \/ CreateKeyPutFailed(p)
        \/ GetKeyInfo(p)
        \/ RemoveKeyHas(p)
        \/ RemoveKeyHasFailed(p)
        \/ RemoveKeyDelete(p)

SpecStoreFaults == Init /\ [][NextStoreFaults]_vars

-----------------------------------------------------------------------------
(* Caller 1 creates and removes keys while caller 2 renames and exports
   them, at any time *)

NextConcurrentRemove ==
    \/ \E n \in FollowUpNameInputs : Alone(1) /\ CallCreateKey(1, n, Rsa, MinRsaKeySize)
    \/ \E n \in FollowUpNameInputs : CallRemoveKey(1, n)
    \/ \E o \in FollowUpNameInputs, n \in FollowUpNameInputs : CallRenameKey(2, o, n)
    \/ \E n \in FollowUpNameInputs : CallExportKey(2, n, Text("password"))
    \/ \E p \in Procs :
        \/ CreateKeyHas(p)
        \/ CreateKeyGenerated(p)
        \/ CreateKeyPut(p)
        \/ GetKeyInfo(p)
        \/ RemoveKeyHas(p)
        \/ RemoveKeyDelete(p)
        \/ RenameKeyGet(p)
        \/ RenameKeyHas(p)
        \/ RenameKeyCommit(p)
        \/ ExportKeyGet(p)

SpecConcurrentRemove == Init /\ [][NextConcurrentRemove]_vars

-----------------------------------------------------------------------------
(* Caller 1 creates and removes keys, caller 2 calls the operations that
   only read, one call at a time *)

\* An envelope for the first generated key, and its cipher data of _encrypt.
EnvelopeForFirstKey ==
    EnvelopedData(<<Recipient(certificateForKey(GeneratedKey(1)))>>,
                  toBinaryString(Buffer(5, <<"plain", "other">>)), "padding 1")
CipherForFirstKey ==
    publicEncrypt(encryptRsaPrivateKey(GeneratedKey(1), Dek), Dek,
                  Buffer(5, <<"plain", "other">>), "padding 1")

NextReadOnly ==
    \/ \E n \in FollowUpNameInputs : Alone(1) /\ CallCreateKey(1, n, Rsa, MinRsaKeySize)
    \/ \E n \in FollowUpNameInputs : Alone(1) /\ CallRemoveKey(1, n)
    \/ Alone(2) /\ CallListKeys(2)
    \/ \E i \in IdInputs : Alone(2) /\ CallFindKeyById(2, i)
    \/ \E n \in FollowUpNameInputs : Alone(2) /\ CallFindKeyByName(2, n)
    \/ \E n \in FollowUpNameInputs, w \in ExportPasswordInputs :
            Alone(2) /\ CallExportKey(2, n, w)
    \/ \E n \in FollowUpNameInputs, d \in {Buffer(5, <<"plain", "other">>), Text("not a buffer")} :
            Alone(2) /\ CallEncrypt(2, n, d)
    \/ \E n \in FollowUpNameInputs, x \in {CipherForFirstKey, Buffer(ModulusBytes, <<"noise">>)} :
            Alone(2) /\ CallDecrypt(2, n, x)
    \/ \E n \in FollowUpNameInputs, d \in {Buffer(5, <<"plain", "other">>), Text("not a buffer")} :
            Alone(2) /\ CallCreateAnonymousEncryptedData(2, n, d)
    \/ \E x \in {EnvelopeForFirstKey, ForeignEnvelope, Text("not CMS")} :
            Alone(2) /\ CallReadCmsData(2, "ks", x)
    \/ \E p \in Procs :
        \/ CreateKeyHas(p)
        \/ CreateKeyGenerated(p)
        \/ CreateKeyPut(p)
        \/ GetKeyInfo(p)
        \/ RemoveKeyHas(p)
        \/ RemoveKeyDelete(p)
        \/ ListKeysQuery(p)
        \/ ListKeysGet(p)
        \/ ExportKeyGet(p)
        \/ EncryptGet(p)
        \/ DecryptGet(p)
        \/ CreateAnonymousEncryptedDataGet(p)
        \/ ReadCmsDataQuery(p)
        \/ ReadCmsDataGet(p)
        \/ ReadCmsDataKey(p)
        \/ ReadCmsDataImmediate(p)

SpecReadOnly == Init /\ [][NextReadOnly]_vars

-----------------------------------------------------------------------------
(* Caller 2 creates the keys 'a' and 'b', looks keys up by id and reads
   envelopes, one call at a time, while caller 1 removes or renames 'b' at
   any time *)

\* The envelopes for the generated keys.
EnvelopeFor(n) ==
    EnvelopedData(<<Recipient(certificateForKey(GeneratedKey(n)))>>,
                  toBinaryString(Buffer(5, <<"plain", "other">>)), "padding 1")

NextConcurrentRead ==
    \/ \E n \in FollowUpNameInputs : Alone(2) /\ CallCreateKey(2, n, Rsa, MinRsaKeySize)
    \/ \E n \in 1..MaxKeys : CallFindKeyById(2, keyId(GeneratedKey(n)))
    \/ \E n \in 1..MaxKeys : CallReadCmsData(2, "ks", EnvelopeFor(n))
    \/ CallRemoveKey(1, <<"b">>)
    \/ CallRenameKey(1, <<"b">>, <<"c">>)
    \/ \E p \in Procs :
        \/ CreateKeyHas(p)
        \/ CreateKeyGenerated(p)
        \/ CreateKeyPut(p)
        \/ GetKeyInfo(p)
        \/ RemoveKeyHas(p)
        \/ RemoveKeyDelete(p)
        \/ RenameKeyGet(p)
        \/ RenameKeyHas(p)
        \/ RenameKeyCommit(p)
        \/ ListKeysQuery(p)
        \/ ListKeysGet(p)
        \/ ReadCmsDataQuery(p)
        \/ ReadCmsDataGet(p)
        \/ ReadCmsDataKey(p)
        \/ ReadCmsDataImmediate(p)

SpecConcurrentRead == Init /\ [][NextConcurrentRead]_vars

-----------------------------------------------------------------------------
(* Claims *)

\* The caller p takes a step.
Step(p) == calls'[p] # calls[p]

\* The operations that take the name of the key to write or to remove.
NamedOps == {"createKey", "removeKey", "importKey", "importPeer"}

\* The call c gave 'self' where the claim C1 forbids it.
UsesSelf(c) ==
    \/ c.op \in NamedOps /\ c.args.name = Self
    \/ c.op = "renameKey" /\ (c.args.oldName = Self \/ c.args.newName = Self)

\* C1: the store never holds a record named 'self', and every createKey,
\* renameKey, importKey, importPeer and removeKey that is given 'self' fails
\* without a store call.
C1_SelfIsNeverStored ==
    /\ ~StoreHas(DsName(Self))
    /\ \A p \in Procs :
        (calls[p].pc = "done" /\ UsesSelf(calls[p]))
            => (Failed(calls[p]) /\ calls[p].ios = <<>>)

\* A name the claim C2 calls invalid: null, undefined, empty, or different
\* from its trimmed and sanitized form.
BadName(name) == name \in {Null, Undefined, <<>>} \/ name # sanitize(Trim(name))

\* C2: createKey, removeKey and importKey given an invalid name, and renameKey
\* given an invalid old or new name, fail with an invalid-key-name error at
\* the call, before any store call, and the store is unchanged.
C2_InvalidNameRejected ==
    [][\A p \in Procs :
        LET c == calls'[p]
        IN  /\ (Step(p) /\ c.op \in {"createKey", "removeKey", "importKey"}
                    /\ BadName(c.args.name))
                => /\ c.pc = "done" /\ c.ios = <<>> /\ store' = store
                   /\ c.err = Error("Invalid key name", c.args.name)
            /\ (Step(p) /\ c.op = "renameKey"
                    /\ (BadName(c.args.oldName) \/ BadName(c.args.newName)))
                => /\ c.pc = "done" /\ c.ios = <<>> /\ store' = store
                   /\ c.err = IF BadName(c.args.oldName) \/ c.args.oldName = Self
                             THEN Error("Invalid old key name", c.args.oldName)
                             ELSE Error("Invalid new key name", c.args.newName)
    ]_vars

\* Witness of C2: a rename was refused for its path-traversal new name.
C2_Witness ==
    \E p \in Procs :
        /\ calls[p].op = "renameKey" /\ Failed(calls[p])
        /\ calls[p].args.oldName = <<"a">>
        /\ calls[p].args.newName = <<".", ".", "/", "a">>
        /\ StoreHas(DsName(<<"a">>))

\* What the constructor's caller asked for, the defaults where it did not.
Asked(field, default) ==
    IF "dek" \in DOMAIN ctor.options /\ field \in DOMAIN ctor.options.dek
    THEN ctor.options.dek[field]
    ELSE default

\* C3: the constructor throws and builds no chain when the store is missing,
\* the pass phrase is missing or shorter than 20, dek.keyLength < 14,
\* dek.salt is shorter than 16 or dek.iterationCount < 1000; otherwise it
\* builds a chain whose dek profile holds the caller's values and the
\* defaults (64, 10000, sha512) for the rest.
C3_ConstructorEnforcesFloors ==
    ctor.called =>
        LET tooWeak ==
                \/ ~ctor.hasStore
                \/ "passPhrase" \notin DOMAIN ctor.options
                \/ Len(ctor.options.passPhrase) < 20
                \/ Asked("keyLength", 64) < 14
                \/ Len(Asked("salt", defaultOptions.dek.salt)) < 16
                \/ Asked("iterationCount", 10000) < 1000
        IN  IF tooWeak
            THEN ctor.err # "" /\ chain = NoChain
            ELSE /\ ctor.err = "" /\ chain.constructed
                 /\ chain.dek.keyLength = Asked("keyLength", 64)
                 /\ chain.dek.iterationCount = Asked("iterationCount", 10000)
                 /\ chain.dek.hash = Asked("hash", "sha512")
                 /\ chain.dek.salt = Asked("salt", defaultOptions.dek.salt)

\* Witness of C3: a chain built from a store, a 20 character pass phrase and
\* a dek at the floors.
C3_Witness ==
    /\ ctor.called /\ chain.constructed
    /\ Len(ctor.options.passPhrase) = 20
    /\ chain.dek.keyLength = 14 /\ chain.dek.iterationCount = 1000
    /\ Len(chain.dek.salt) = 16

\* The operations that store a key under a new name.
AddingOps == {"createKey", "importKey", "importPeer"}

\* The steps of an adding operation up to and including its put.
AddingSteps ==
    {"create.has", "create.gen", "create.put", "import.has", "import.put",
     "peer.has", "peer.unmarshal", "peer.put"}

\* C4: while a record exists under the name, no step of a createKey, importKey
\* or importPeer on that name, up to its put, changes the store, and the step
\* that learns of the record fails the call with the 'already exists' error.
C4_ExistingKeyNotOverwritten ==
    [][\A p \in Procs :
        LET c == calls[p]
        IN  (Step(p) /\ c.op \in AddingOps /\ c.pc \in AddingSteps
                /\ StoreHas(DsName(c.args.name)))
                => /\ store' = store
                   /\ c.pc \in {"create.has", "import.has", "peer.has"}
                   /\ calls'[p].pc = "done"
                   /\ calls'[p].err = Error("Key already exists", c.args.name)
    ]_vars

\* Witness of C4: an importPeer was refused because the name holds a key.
C4_Witness ==
    \E p \in Procs :
        /\ calls[p].op = "importPeer"
        /\ calls[p].pc = "done"
        /\ calls[p].err.msg = "Key already exists"
        /\ StoreHas(DsName(calls[p].args.name))
        /\ store[DsName(calls[p].args.name)].key = GeneratedKey(1)

\* C5: two createKey calls on the same name, however their steps interleave,
\* end with one success and one 'already exists' error, and the record is
\* the key of the caller that succeeded.
C5_OneCreatorWins ==
    \A p, q \in Procs :
        (/\ p # q
         /\ calls[p].pc = "done" /\ calls[q].pc = "done"
         /\ calls[p].op = "createKey" /\ calls[q].op = "createKey"
         /\ calls[p].args.name = calls[q].args.name)
        => \E w \in {p, q} :
            /\ Succeeded(calls[w])
            /\ store[DsName(calls[w].args.name)] = calls[w].pem
            /\ \A l \in {p, q} \ {w} : calls[l].err.msg = "Key already exists"

\* The key types that name RSA.
RsaTypes == {<<"r", "s", "a">>, <<"R", "S", "A">>}

\* C8: when store.has finds no record under the name, createKey with a type
\* string other than rsa fails with the invalid-key-type error, with rsa and
\* a size below 2048 fails with the invalid-size error that carries the size,
\* both without a change to the store; with rsa or RSA and a size of at least
\* 2048 it goes on to generate the key.
C8_TypeAndSizeChecked ==
    [][\A p \in Procs :
        LET c == calls[p]
            d == calls'[p]
        IN  (Step(p) /\ c.pc = "create.has" /\ ~StoreHas(DsName(c.args.name))
                /\ c.args.type \notin {Null, Undefined})
            => IF c.args.type \notin RsaTypes
               THEN /\ d.pc = "done" /\ store' = store /\ "put" \notin Range(d.ios)
                    /\ d.err = Error("Invalid key type", c.args.type)
               ELSE IF c.args.size < 2048
               THEN /\ d.pc = "done" /\ store' = store /\ "put" \notin Range(d.ios)
                    /\ d.err = Error("Invalid RSA key size", <<c.args.size>>)
               ELSE d.pc = "create.gen"
    ]_vars

\* Witness of C8: createKey('b', 'rsa', 1024) was refused for its size and
\* createKey with 'RSA' and 2048 had stored a key before.
C8_Witness ==
    \E p \in Procs :
        /\ calls[p].op = "createKey" /\ calls[p].pc = "done"
        /\ calls[p].args.name = <<"b">>
        /\ calls[p].err = Error("Invalid RSA key size", <<1024>>)
        /\ ~StoreHas(DsName(<<"b">>))
        /\ StoreHas(DsName(<<"a">>))

\* The caller q completes a findKeyByName of the name in this step.
FindsByName(q, name) ==
    /\ Step(q) /\ calls'[q].pc = "done"
    /\ calls'[q].op = "findKeyByName" /\ calls'[q].args.name = name

\* C6: a createKey that succeeds has stored, under the name, the wrapped key
\* it generated and returns the name and the id of that key; and while the
\* record it wrote is the one stored under the name, a findKeyByName of the
\* name succeeds with the KeyInfo createKey returned.
C6_CreatedKeyIsFound ==
    [][\A p \in Procs :
        /\ (Step(p) /\ calls'[p].op = "createKey" /\ Succeeded(calls'[p]))
            => LET c == calls'[p]
               IN  /\ DsName(c.args.name) \in DOMAIN store'
                   /\ store'[DsName(c.args.name)].key = c.key
                   /\ c.key \in {GeneratedKey(n) : n \in 1..MaxKeys}
                   /\ c.val = [name |-> c.args.name, id |-> <<"base64-sha256", c.key>>]
        /\ \A q \in Procs \ {p} :
            (/\ calls[p].op = "createKey" /\ Succeeded(calls[p])
             /\ StoreHas(DsName(calls[p].args.name))
             /\ store[DsName(calls[p].args.name)] = calls[p].pem
             /\ FindsByName(q, calls[p].args.name))
            => (Succeeded(calls'[q]) /\ calls'[q].val = calls[p].val)
    ]_vars

\* Witness of C6: after createKey('a') succeeded, other keys came and went,
\* and findKeyByName('a') returned the KeyInfo createKey returned.
C6_Witness ==
    /\ calls[1].op = "createKey" /\ Succeeded(calls[1])
    /\ calls[2].op = "findKeyByName" /\ Succeeded(calls[2])
    /\ calls[1].args.name = <<"a">> /\ calls[2].val = calls[1].val
    /\ calls[1].val.id = keyId(GeneratedKey(2))
    /\ Cardinality(DOMAIN store) = 2

\* The KeyInfo of the record stored under the datastore name k.
StoredInfo(k) == [name |-> Tail(k), id |-> <<"base64-sha256", store[k].key>>]

\* The caller q completes a findKeyById in this step.
FindsById(q) == Step(q) /\ calls'[q].pc = "done" /\ calls'[q].op = "findKeyById"

\* C7 as it is stated: for every stored key with KeyInfo info,
\* findKeyById(info.id) returns info.
C7_FindByIdReturnsInfo ==
    [][\A q \in Procs :
        FindsById(q) =>
            \A k \in DOMAIN store :
                StoredInfo(k).id = calls'[q].args.id
                    => (Succeeded(calls'[q]) /\ calls'[q].val = StoredInfo(k))
    ]_vars

\* C7, amended: findKeyById(id) of an id that a stored key has returns the
\* KeyInfo of a stored key with that id, which is info when no other record
\* holds the same key material; of an id no stored key has, it returns
\* nothing and no error.
C7_FindByIdReturnsAKeyWithTheId ==
    [][\A q \in Procs :
        FindsById(q) =>
            LET holders == {k \in DOMAIN store : StoredInfo(k).id = calls'[q].args.id}
            IN  /\ Succeeded(calls'[q])
                /\ IF holders = {} THEN calls'[q].val = NoInfo
                   ELSE calls'[q].val \in {StoredInfo(k) : k \in holders}
    ]_vars

\* Witness of C7: two names hold the same key material, and findKeyById of
\* its id returned the KeyInfo of the second name.
C7_Witness ==
    \E q \in Procs :
        /\ calls[q].op = "findKeyById" /\ Succeeded(calls[q])
        /\ calls[q].val = [name |-> <<"b">>, id |-> keyId(GeneratedKey(1))]
        /\ StoreHas(DsName(<<"a">>)) /\ StoreHas(DsName(<<"b">>))
        /\ store[DsName(<<"a">>)] = store[DsName(<<"b">>)]

\* C9: removeKey of a valid name that store.has does not find fails with the
\* 'does not exist' error and leaves the store unchanged; of a name it finds,
\* it deletes that record and no other and succeeds; and while the name stays
\* absent after a successful removeKey, findKeyByName of it fails and
\* listKeys succeeds without it.
C9_RemoveKeyRemoves ==
    [][\A p \in Procs :
        LET c == calls[p]
            dsname == <<"/">> \o c.args.name
        IN  /\ (Step(p) /\ c.pc = "remove.has" /\ dsname \notin DOMAIN store)
                => /\ calls'[p].pc = "done" /\ store' = store
                   /\ calls'[p].err = Error("Key does not exist", c.args.name)
            /\ (Step(p) /\ c.pc = "remove.has" /\ dsname \in DOMAIN store)
                => (calls'[p].pc = "remove.delete" /\ store' = store)
            /\ (Step(p) /\ c.pc = "remove.delete")
                => /\ Succeeded(calls'[p])
                   /\ DOMAIN store' = DOMAIN store \ {dsname}
                   /\ \A k \in DOMAIN store' : store'[k] = store[k]
            /\ \A q \in Procs \ {p} :
                (c.op = "removeKey" /\ Succeeded(c) /\ dsname \notin DOMAIN store)
                => /\ FindsByName(q, c.args.name) => Failed(calls'[q])
                   /\ (Step(q) /\ calls'[q].pc = "done" /\ calls'[q].op = "listKeys")
                        => /\ Succeeded(calls'[q])
                           /\ \A i \in DOMAIN calls'[q].val :
                                calls'[q].val[i].name # c.args.name
    ]_vars

\* Witness of C9: removeKey('a') succeeded, 'b' is still stored, and a later
\* findKeyByName('a') failed.
C9_Witness ==
    /\ calls[1].op = "removeKey" /\ Succeeded(calls[1]) /\ calls[1].args.name = <<"a">>
    /\ calls[2].op = "findKeyByName" /\ Failed(calls[2]) /\ calls[2].args.name = <<"a">>
    /\ DOMAIN store = {DsName(<<"b">>)}

\* C10: the commit of renameKey leaves the number of records unchanged,
\* leaves no record under old and puts under new the bytes old held;
\* renameKey then returns the name new and the id of those bytes; and while
\* that record stays, findKeyByName(new) returns the same KeyInfo, and while
\* old stays absent, findKeyByName(old) fails.
C10_RenameKeepsTheKey ==
    [][\A p \in Procs :
        LET c == calls[p]
            old == <<"/">> \o c.args.oldName
            new == <<"/">> \o c.args.newName
        IN  /\ (Step(p) /\ c.pc = "rename.commit")
                => /\ Cardinality(DOMAIN store') = Cardinality(DOMAIN store)
                   /\ old \notin DOMAIN store'
                   /\ new \in DOMAIN store' /\ store'[new] = store[old]
            /\ (Step(p) /\ calls'[p].op = "renameKey" /\ Succeeded(calls'[p]))
                => calls'[p].val = [name |-> c.args.newName,
                                    id |-> <<"base64-sha256", c.pem.key>>]
            /\ \A q \in Procs \ {p} :
                (c.op = "renameKey" /\ Succeeded(c))
                => /\ (FindsByName(q, c.args.oldName) /\ old \notin DOMAIN store)
                        => Failed(calls'[q])
                   /\ (/\ FindsByName(q, c.args.newName)
                       /\ new \in DOMAIN store /\ store[new] = c.pem)
                        => (Succeeded(calls'[q]) /\ calls'[q].val = c.val)
    ]_vars

\* Witness of C10: renameKey('a', 'b') succeeded with the id of the key that
\* createKey had stored under 'a', and findKeyByName('b') returned it.
C10_Witness ==
    /\ calls[1].op = "renameKey" /\ Succeeded(calls[1])
    /\ calls[1].args.oldName = <<"a">> /\ calls[1].args.newName = <<"b">>
    /\ calls[2].op = "findKeyByName" /\ calls[2].args.name = <<"b">>
    /\ Succeeded(calls[2])
    /\ calls[2].val = [name |-> <<"b">>, id |-> keyId(GeneratedKey(1))]
    /\ DOMAIN store = {DsName(<<"b">>)}

\* C11: renameKey with valid names ends with the 'does not exist' error when
\* store.get finds no record under old, and with the 'already exists' error
\* when store.has finds a record under new (new = old included); in both
\* cases the store is unchanged and the call made no commit.
C11_RenameFailsWithoutWriting ==
    [][\A p \in Procs :
        LET c == calls[p]
            d == calls'[p]
        IN  /\ (Step(p) /\ c.pc = "rename.get"
                    /\ (<<"/">> \o c.args.oldName) \notin DOMAIN store)
                => /\ d.pc = "done" /\ store' = store /\ d.ios = <<"get">>
                   /\ d.err = Error("Key does not exist", c.args.oldName)
            /\ (Step(p) /\ c.pc = "rename.has"
                    /\ (<<"/">> \o c.args.newName) \in DOMAIN store)
                => /\ d.pc = "done" /\ store' = store /\ d.ios = <<"get", "has">>
                   /\ d.err = Error("Key already exists", c.args.newName)
    ]_vars

\* Witness of C11: renameKey('a', 'a') of a stored key was refused.
C11_Witness ==
    \E p \in Procs :
        /\ calls[p].op = "renameKey" /\ calls[p].pc = "done"
        /\ calls[p].args.oldName = <<"a">> /\ calls[p].args.newName = <<"a">>
        /\ calls[p].err = Error("Key already exists", <<"a">>)
        /\ DOMAIN store = {DsName(<<"a">>)}

\* The store requests of a renameKey that succeeds, in their order.
RenameRequests == <<"get", "has", "commit", "get">>

\* s is a prefix of t.
IsPrefix(s, t) == Len(s) <= Len(t) /\ \A i \in 1..Len(s) : s[i] = t[i]

\* The record with the bytes pem is stored under the name.
Holds(s, name, pem) == (<<"/">> \o name) \in DOMAIN s /\ s[<<"/">> \o name] = pem

C12_FailedCommitReached ==
    /\ calls[1].op = "renameKey" /\ calls[1].err.msg = "commit failed"
    /\ DOMAIN store = {DsName(calls[1].args.oldName)}

\* The caller p completes an _encrypt of a buffer with a stored key in this
\* step.
EncryptsWithStoredKey(p) ==
    /\ Step(p) /\ calls[p].pc = "encrypt.get"
    /\ (<<"/">> \o calls[p].args.name) \in DOMAIN store
    /\ calls[p].args.plain[1] = "buffer"

\* The _encrypt of p returned the algorithm tag and a buffer.
ReturnsCipherBlob(p) ==
    /\ Succeeded(calls'[p])
    /\ calls'[p].val.algorithm = "RSA_PKCS1_PADDING"
    /\ calls'[p].val.cipherData[1] = "buffer"

\* While the record _encrypt of p used is the one under the name, a _decrypt
\* of what it returned, under that name, returns the data.
DecryptsWhatWasEncrypted(p) ==
    \A q \in Procs \ {p} :
        (/\ calls[p].op = "_encrypt" /\ Succeeded(calls[p])
         /\ Holds(store, calls[p].args.name, calls[p].pem)
         /\ Step(q) /\ calls[q].pc = "decrypt.get"
         /\ calls[q].args.name = calls[p].args.name
         /\ calls[q].args.cipher = calls[p].val.cipherData)
        => (Succeeded(calls'[q]) /\ calls'[q].val = calls[p].args.plain)

\* C13 as it is stated: _encrypt of every byte buffer with a stored key
\* returns {algorithm: 'RSA_PKCS1_PADDING', cipherData}, and _decrypt of the
\* cipherData returns the data while the record is not removed or replaced.
C13_EveryBufferRoundTrips ==
    [][\A p \in Procs :
        /\ EncryptsWithStoredKey(p) => ReturnsCipherBlob(p)
        /\ DecryptsWhatWasEncrypted(p)
    ]_vars

\* C13, amended: the same for every byte buffer of at most the key's modulus
\* length less 11 bytes (245 for a 2048 bit key); _encrypt of a longer
\* buffer fails with an error and returns nothing.
C13_ShortBufferRoundTrips ==
    [][\A p \in Procs :
        /\ EncryptsWithStoredKey(p) =>
            IF calls[p].args.plain[2] <= (2048 \div 8) - 11
            THEN ReturnsCipherBlob(p)
            ELSE Failed(calls'[p]) /\ calls'[p].val = <<>>
        /\ DecryptsWhatWasEncrypted(p)
    ]_vars

\* Witness of C13: _decrypt returned the 245 bytes that _encrypt had
\* encrypted.
C13_Witness ==
    /\ calls[1].op = "_encrypt" /\ Succeeded(calls[1])
    /\ calls[2].op = "_decrypt" /\ Succeeded(calls[2])
    /\ calls[2].args.cipher = calls[1].val.cipherData
    /\ calls[2].val = calls[1].args.plain
    /\ calls[2].val[2] = 245

\* The too long buffer was refused by _encrypt.
C13_LongBufferRefused ==
    /\ calls[1].op = "_encrypt" /\ Failed(calls[1])
    /\ calls[1].ios = <<"get">> /\ StoreHas(DsName(calls[1].args.name))
    /\ calls[1].args.plain[2] = 246

\* C14: _encrypt and _decrypt of data that is no byte buffer end at the call
\* with the 'Data is required' error; of a name under which store.get finds
\* no record they end with the 'does not exist' error; both return no data,
\* and no step of either changes the store.
C14_CipherCallsRefuseBadInput ==
    [][\A p \in Procs :
        LET c == calls[p]
            d == calls'[p]
        IN  /\ (Step(p) /\ d.op \in {"_encrypt", "_decrypt"}) => store' = store
            /\ (Step(p) /\ d.op = "_encrypt" /\ d.args.plain[1] # "buffer")
                => /\ d.pc = "done" /\ d.val = <<>> /\ d.ios = <<>>
                   /\ d.err = Error("Data is required", <<>>)
            /\ (Step(p) /\ d.op = "_decrypt" /\ d.args.cipher[1] # "buffer")
                => /\ d.pc = "done" /\ d.val = <<>> /\ d.ios = <<>>
                   /\ d.err = Error("Data is required", <<>>)
            /\ (Step(p) /\ c.pc \in {"encrypt.get", "decrypt.get"}
                    /\ (<<"/">> \o c.args.name) \notin DOMAIN store)
                => /\ d.pc = "done" /\ d.val = <<>>
                   /\ d.err = Error("Key does not exist", c.args.name)
    ]_vars

\* Witness of C14: with 'a' stored, _encrypt('a', null) was refused, and then
\* _decrypt('b', cipher) was, for 'b' does not exist.
C14_Witness ==
    /\ calls[1].op = "_encrypt" /\ calls[1].args.plain = Null
    /\ calls[1].err.msg = "Data is required"
    /\ calls[2].op = "_decrypt" /\ calls[2].args.name = <<"b">>
    /\ calls[2].err.msg = "Key does not exist"
    /\ DOMAIN store = {DsName(<<"a">>)}

\* The call c imports, under the password pw, the PEM the exportKey e got.
ImportsExportOf(c, e, pw) ==
    /\ e.op = "exportKey" /\ Succeeded(e)
    /\ c.op = "importKey" /\ c.args.pem = e.val /\ c.args.password = pw

\* C15: exportKey of a stored key under a non-empty password succeeds and no
\* step of it changes the store; importKey of that PEM under the same
\* password and an absent name puts a record under the name and returns the
\* name and the id of the exported key, the id the key under n1 has.
C15_ExportImportRoundTrip ==
    [][\A p \in Procs :
        LET e == calls[p]
        IN  /\ (Step(p) /\ calls'[p].op = "exportKey") => store' = store
            /\ (Step(p) /\ e.pc = "export.get" /\ (<<"/">> \o e.args.name) \in DOMAIN store)
                => Succeeded(calls'[p])
            /\ \A q \in Procs \ {p} :
                LET c == calls[q]
                    d == calls'[q]
                    n2 == <<"/">> \o c.args.name
                IN  (Step(q) /\ e.op = "exportKey"
                        /\ ImportsExportOf(c, e, e.args.password)) =>
                    /\ (c.pc = "import.has" /\ n2 \notin DOMAIN store)
                        => d.pc = "import.put"
                    /\ c.pc = "import.put" => (d.pc = "info" /\ n2 \in DOMAIN store')
                    /\ c.pc = "info" =>
                        /\ Succeeded(d)
                        /\ d.val = [name |-> c.args.name,
                                    id |-> <<"base64-sha256", e.pem.key>>]
                        /\ Holds(store, e.args.name, e.pem)
                            => d.val.id = StoredInfo(<<"/">> \o e.args.name).id
    ]_vars

\* Witness of C15: 'a' was exported and imported as 'b' with the id of 'a',
\* and both are stored.
C15_Witness ==
    /\ calls[1].op = "exportKey" /\ Succeeded(calls[1])
    /\ calls[1].args.name = <<"a">>
    /\ calls[2].op = "importKey" /\ Succeeded(calls[2])
    /\ calls[2].args.pem = calls[1].val
    /\ calls[2].val = [name |-> <<"b">>, id |-> keyId(GeneratedKey(1))]
    /\ DOMAIN store = {DsName(<<"a">>), DsName(<<"b">>)}

\* C16: importKey of an exported PEM under an absent name and a password
\* other than the one it was exported under ends with the wrong-password
\* error at the store.has completion and leaves the store unchanged, so the
\* name stays absent; and with the right password the import of the same PEM
\* under that name then goes on to its put and succeeds.
C16_WrongPasswordStoresNothing ==
    [][\A p \in Procs : \A q \in Procs \ {p} :
        LET e == calls[p]
            c == calls[q]
            d == calls'[q]
            n == <<"/">> \o c.args.name
        IN  /\ (/\ Step(q) /\ c.pc = "import.has" /\ n \notin DOMAIN store
                /\ e.op = "exportKey"
                /\ \E w \in PasswordInputs \ {e.args.password} : ImportsExportOf(c, e, w))
                => /\ d.pc = "done" /\ store' = store /\ d.ios = <<"has">>
                   /\ d.err = Error("Cannot read the key, most likely the password is wrong",
                                    <<>>)
            /\ (/\ Step(q) /\ e.op = "exportKey"
                /\ ImportsExportOf(c, e, e.args.password)
                /\ c.pc \in {"import.has", "import.put", "info"}
                /\ c.pc = "import.has" => n \notin DOMAIN store)
                => (d.pc \in {"import.put", "info"} \/ Succeeded(d))
    ]_vars

\* Witness of C16: importKey of the exported PEM under an absent name and
\* another password than the exported one's was refused, and the name is
\* still absent.
C16_Witness ==
    /\ calls[1].op = "exportKey" /\ Succeeded(calls[1])
    /\ calls[2].op = "importKey" /\ calls[2].args.pem = calls[1].val
    /\ calls[2].args.password # calls[1].args.password
    /\ calls[2].err.msg = "Cannot read the key, most likely the password is wrong"
    /\ ~StoreHas(DsName(calls[2].args.name))

\* C17: when importPeer(name, peer) succeeds for a peer with a native string
\* id, the KeyInfo it returns has the given name and the peer's native id.
\* (The code answers with _getKeyInfo(name), whose id is util.keyId of the
\* stored key: the base64 SHA-256 digest, never the peer's base58 multihash.)
C17_ImportPeerKeepsPeerId ==
    \A p \in Procs :
        LET c == calls[p]
        IN  (c.op = "importPeer" /\ Succeeded(c) /\ c.args.peer.id # <<>>)
                => (c.val.name = c.args.name /\ c.val.id = c.args.peer.id)

\* The createAnonymousEncryptedData of caller p succeeded, and the record it
\* read is still the one under its name.
EnvelopeKeyStays(p) ==
    /\ calls[p].op = "createAnonymousEncryptedData" /\ Succeeded(calls[p])
    /\ Holds(store, calls[p].args.name, calls[p].pem)

\* The caller q takes a step of a readCmsData of the bytes x on the keystore ks.
ReadsCms(q, ks, x) ==
    /\ Step(q) /\ calls'[q].op = "readCmsData"
    /\ calls'[q].args.ks = ks /\ calls'[q].args.cmsData = x

\* C18: createAnonymousEncryptedData of a stored key name and a byte buffer
\* returns an envelope, a byte buffer; while the record it read stays under
\* the name, no step of a readCmsData of that envelope on the same keystore
\* fails or throws, and the call ends with the data as its result.
C18_CmsRoundTrip ==
    [][\A p \in Procs :
        /\ (/\ Step(p) /\ calls[p].pc = "cms.get"
            /\ StoreHas(DsName(calls[p].args.name)))
                => (Succeeded(calls'[p]) /\ IsBuffer(calls'[p].val))
        /\ \A q \in Procs \ {p} :
            (EnvelopeKeyStays(p) /\ ReadsCms(q, "ks", calls[p].val))
                => /\ calls'[q].pc # "crashed"
                   /\ calls'[q].pc = "done"
                        => /\ Succeeded(calls'[q])
                           /\ calls'[q].val = calls[p].args.plain
                           /\ calls[q].pc = "read.immediate"
    ]_vars

\* Witness of C18: readCmsData returned the 35 bytes that
\* createAnonymousEncryptedData had enveloped for the key 'a'.
C18_Witness ==
    /\ calls[1].op = "createAnonymousEncryptedData" /\ Succeeded(calls[1])
    /\ calls[2].op = "readCmsData" /\ Succeeded(calls[2])
    /\ calls[2].args.cmsData = calls[1].val
    /\ calls[2].val = calls[1].args.plain
    /\ calls[2].val[2] = 35

\* No key of the keystore the call c is made on has the id of the key that
\* the createAnonymousEncryptedData of caller p enveloped for.
LacksRecipientKey(c, p) ==
    \/ c.args.ks = "emptyKeystore"
    \/ \A k \in DOMAIN store :
            StoredInfo(k).id # <<"base64-sha256", calls[p].pem.key>>

\* C19: readCmsData of an envelope that createAnonymousEncryptedData built,
\* on a keystore that stores no key with the id of the recipient's key (the
\* other keystore, or the same one after the key was removed), ends in its
\* lookup with the 'No key found for decryption' error and no data; it does
\* not go on to read a key.
C19_NoKeyNoPlaintext ==
    [][\A p \in Procs, q \in Procs :
        (/\ p # q
         /\ calls[p].op = "createAnonymousEncryptedData" /\ Succeeded(calls[p])
         /\ Step(q) /\ calls'[q].op = "readCmsData"
         /\ calls'[q].args.cmsData = calls[p].val
         /\ LacksRecipientKey(calls'[q], p))
        => /\ calls'[q].pc \in {"read.detect.query", "read.detect.get", "done"}
           /\ calls'[q].pc = "done"
                => /\ calls'[q].err = Error("No key found for decryption", <<>>)
                   /\ calls'[q].val = <<>>
    ]_vars

\* Witness of C19: the keystore still holds the key of the envelope, and
\* readCmsData of the envelope on the other keystore found no key.
C19_Witness ==
    /\ EnvelopeKeyStays(1)
    /\ calls[2].op = "readCmsData" /\ calls[2].args.ks = "emptyKeystore"
    /\ calls[2].args.cmsData = calls[1].val
    /\ calls[2].err = Error("No key found for decryption", <<>>)
    /\ calls[2].ios = <<"query">>

\* The key of the envelope was removed and another key created; readCmsData
\* of the envelope on the same keystore looked at that key and found none.
C19_RemovedKeyReached ==
    /\ calls[1].op = "createAnonymousEncryptedData" /\ Succeeded(calls[1])
    /\ calls[2].op = "readCmsData" /\ calls[2].args.ks = "ks"
    /\ calls[2].args.cmsData = calls[1].val
    /\ calls[2].err = Error("No key found for decryption", <<>>)
    /\ calls[2].ios = <<"query", "get">>

\* The bytes x parse as a PKCS #7 EnvelopedData.
IsEnvelopedData(x) ==
    IF x[1] # "buffer" THEN FALSE
    ELSE IF Len(x[3]) < 2 THEN FALSE
    ELSE x[3][1] = "pkcs7" /\ x[3][2] = "envelopedData"

\* The bytes x parse as a PKCS #7 message.
IsPkcs7(x) ==
    IF x[1] # "buffer" THEN FALSE
    ELSE IF Len(x[3]) < 2 THEN FALSE
    ELSE x[3][1] = "pkcs7"

\* The call c was refused as no CMS, before any request to the store.
RefusedAsInvalidCms(c) ==
    /\ Failed(c) /\ c.val = <<>> /\ c.ios = <<>>
    /\ c.err \in {Error("CMS data is required", <<>>), Error("Invalid CMS", <<>>)}

\* C20: readCmsData of what is no byte buffer, or of a byte buffer that does
\* not parse as PKCS #7 EnvelopedData, fails at the call with an InvalidCms
\* error and has read nothing from the store.
\* (A buffer that parses as a PKCS #7 message of another content type has no
\* recipients: cms.recipients.filter throws out of readCmsData, and the
\* callback is never called.)
C20_NotCmsIsInvalidCms ==
    \A q \in Procs :
        (calls[q].op = "readCmsData" /\ ~IsEnvelopedData(calls[q].args.cmsData))
            => RefusedAsInvalidCms(calls[q])

\* What the code does keep of C20: readCmsData of what is no byte buffer, or
\* of a byte buffer that is no PKCS #7 message at all, fails at the call with
\* an InvalidCms error and has read nothing from the store.
C20_NoPkcs7IsInvalidCms ==
    \A q \in Procs :
        (calls[q].op = "readCmsData" /\ ~IsPkcs7(calls[q].args.cmsData))
            => RefusedAsInvalidCms(calls[q])

\* readCmsData refused the string 'not CMS'.
C20_StringRefused ==
    /\ calls[2].op = "readCmsData" /\ calls[2].args.cmsData = <<"str", "not CMS">>
    /\ RefusedAsInvalidCms(calls[2])

\* The attribute with this short name and value is in the issuer.
IssuerHas(issuer, shortName, value) ==
    \E i \in DOMAIN issuer :
        issuer[i].shortName = shortName /\ issuer[i].value = value

\* The issuer has an attribute with this short name.
IssuerNames(issuer, shortName) ==
    \E i \in DOMAIN issuer : issuer[i].shortName = shortName

\* The recipient r is one readCmsData may look up.
Discoverable(r) ==
    IssuerHas(r.issuer, "O", <<"str", "ipfs">>) /\ IssuerNames(r.issuer, "CN")

\* C21: the envelope createAnonymousEncryptedData returns has exactly one
\* recipient, whose issuer has O=ipfs and, as CN, the key id that
\* findKeyByName of the name reports; a readCmsData looks up only recipients
\* whose issuer has O=ipfs and a CN, by the value of that CN, and with no
\* such recipient it ends at the call with the 'No key found' error, no
\* request made to the store.
C21_RecipientDiscovery ==
    [][\A p \in Procs :
        /\ (/\ Step(p) /\ calls[p].pc = "cms.get" /\ Succeeded(calls'[p]))
            => LET recipients == calls'[p].val[3][3]
                   name == calls[p].args.name
               IN  /\ Len(recipients) = 1
                   /\ IssuerHas(recipients[1].issuer, "O", <<"str", "ipfs">>)
                   /\ IssuerHas(recipients[1].issuer, "CN", StoredInfo(<<"/">> \o name).id)
        /\ (/\ Step(p) /\ calls[p].pc \notin {"read.detect.query", "read.detect.get",
                                               "read.find.query", "read.find.get",
                                               "read.key", "read.immediate"}
            /\ calls'[p].op = "readCmsData" /\ IsEnvelopedData(calls'[p].args.cmsData))
            => LET recipients == calls'[p].args.cmsData[3][3]
                   candidates == calls'[p].args.candidates
               IN  /\ \A i \in DOMAIN candidates :
                        /\ Discoverable(candidates[i].recipient)
                        /\ IssuerHas(candidates[i].recipient.issuer, "CN",
                                     candidates[i].keyId)
                   /\ (\A i \in DOMAIN recipients : ~Discoverable(recipients[i]))
                        => /\ calls'[p].err = Error("No key found for decryption", <<>>)
                           /\ calls'[p].pc = "done" /\ calls'[p].ios = <<>>
        /\ (/\ Step(p) /\ calls'[p].op = "readCmsData"
            /\ calls'[p].pc = "read.key")
            => calls'[p].args.found.id = Head(calls'[p].args.candidates).keyId
    ]_vars

\* Witness of C21: the key whose id the foreign envelope names is stored, and
\* readCmsData of that envelope looked up nothing.
C21_Witness ==
    /\ \E k \in DOMAIN store : store[k].key = <<"rsa", "generated", 1>>
    /\ calls[2].op = "readCmsData" /\ calls[2].pc = "done"
    /\ calls[2].args.cmsData = ForeignEnvelope
    /\ calls[2].err = Error("No key found for decryption", <<>>)
    /\ calls[2].ios = <<>>

\* The envelope of caller 1 names the id of its key, and readCmsData found
\* the key by it.
C21_LookedUpByCommonName ==
    /\ calls[1].op = "createAnonymousEncryptedData" /\ Succeeded(calls[1])
    /\ calls[2].op = "readCmsData" /\ Succeeded(calls[2])
    /\ calls[2].args.cmsData = calls[1].val
    /\ calls[2].args.found.id = <<"base64-sha256", calls[1].pem.key>>

\* C22: every record in the store is an encrypted PKCS #8 PEM wrapped under
\* the DEK of the key chain; none is a private key that is not encrypted,
\* none is wrapped under a password a caller gave.
C22_StoredKeysAreWrappedUnderDek ==
    \A k \in DOMAIN store :
        /\ store[k].type = "ENCRYPTED PRIVATE KEY"
        /\ store[k].pass = chain.secret

\* Witness of C22: importKey of a private key that was not encrypted
\* succeeded, and the record under its name is the key wrapped under the DEK.
C22_Witness ==
    /\ calls[1].op = "importKey" /\ Succeeded(calls[1])
    /\ calls[1].args.pem.type = "PRIVATE KEY"
    /\ (<<"/">> \o calls[1].args.name) \in DOMAIN store
    /\ store[<<"/">> \o calls[1].args.name]
            = [type |-> "ENCRYPTED PRIVATE KEY", key |-> calls[1].args.pem.key,
               pass |-> chain.secret]

\* importKey of a key exported under 'password' succeeded after a rename,
\* and two records are in the store.
C22_ExportedKeyRewrapped ==
    /\ calls[1].op = "importKey" /\ Succeeded(calls[1])
    /\ calls[1].args.pem.pass = <<"str", "password">>
    /\ Cardinality(DOMAIN store) = 2

\* What the call c gave its caller is the DEK, or is wrapped under it.
Exposes(c) ==
    \/ c.op = "_" /\ c.val = chain.secret
    \/ c.op = "exportKey" /\ Succeeded(c) /\ c.val.pass = chain.secret
    \/ c.op \in {"createKey", "importKey"} /\ Succeeded(c)
            /\ (c.val.id = chain.secret \/ c.val.name = chain.secret)
    \/ c.err.arg = chain.secret

C23_OperationsKeepDek ==
    \A p \in Procs : (calls[p].pc = "done" /\ calls[p].op # "_") => ~Exposes(calls[p])

\* exportKey handed out a PEM.
C23_ExportReached ==
    calls[1].op = "exportKey" /\ Succeeded(calls[1])

\* C24: a listKeys that runs while no other operation does returns, for
\* every record in the store, exactly one KeyInfo with its name and its id,
\* and nothing else.
C24_ListKeysListsTheStore ==
    [][\A q \in Procs :
        (Step(q) /\ calls'[q].op = "listKeys" /\ calls'[q].pc = "done")
        => /\ Succeeded(calls'[q])
           /\ Len(calls'[q].val) = Cardinality(DOMAIN store)
           /\ {calls'[q].val[i] : i \in DOMAIN calls'[q].val}
                = {StoredInfo(k) : k \in DOMAIN store}
    ]_vars

\* Witness of C24: listKeys returned two keys, one of them created by
\* caller 1, and the store holds two records.
C24_Witness ==
    /\ calls[2].op = "listKeys" /\ Succeeded(calls[2])
    /\ Len(calls[2].val) = 2 /\ Cardinality(DOMAIN store) = 2
    /\ calls[1].op = "createKey" /\ Succeeded(calls[1])
    /\ \E i \in DOMAIN calls[2].val : calls[2].val[i] = calls[1].val

\* A request of the call c to the store failed.
StoreFailed(c) == \E i \in DOMAIN c.ios : c.ios[i] \in {"has failed", "put failed"}

\* C25: once a request an operation made to the store has failed, no step of
\* the operation writes the store, and its callback gets an error.
\* (createKey looks only at exists in the callback of store.has, which is
\* undefined when the has failed: it generates a key and puts it, over the
\* record under the name if there is one.)
C25_StoreErrorsSurface ==
    [][\A p \in Procs :
        (Step(p) /\ StoreFailed(calls'[p]))
        => /\ store' = store
           /\ calls'[p].pc = "done" => Failed(calls'[p])
    ]_vars

\* What the code does keep of C25: a failed put of createKey and a failed
\* has of removeKey end the operation with an error and the store unchanged.
C25_FailedPutAndRemoveSurface ==
    [][\A p \in Procs :
        (/\ Step(p) /\ calls[p].pc \in {"create.put", "remove.has"}
         /\ calls'[p].ios[Len(calls'[p].ios)] \in {"has failed", "put failed"})
        => store' = store /\ Failed(calls'[p])
    ]_vars

\* createKey wrote the store after its has had failed.
C25_PutAfterFailedHas ==
    /\ calls[1].op = "createKey" /\ Succeeded(calls[1])
    /\ calls[1].ios = <<"has failed", "put", "get">>

\* The private keys that the records of the store s wrap.
KeyMaterial(s) == {s[k].key : k \in DOMAIN s}

\* C26: after a removeKey has reported success, key material that is not in
\* the store comes into it only by a createKey, importKey or importPeer.
\* (A renameKey that read the record before the removal commits it under the
\* new name after the removal.)
C26_NoReentryFromRemove ==
    [][\A q \in Procs :
        (/\ Step(q)
         /\ \E p \in Procs : calls[p].op = "removeKey" /\ Succeeded(calls[p])
         /\ KeyMaterial(store') \ KeyMaterial(store) # {})
        => calls[q].op \in {"createKey", "importKey", "importPeer"}
    ]_vars

\* removeKey('a') reported success, and the key it removed is in the store
\* under 'b', put there by the renameKey of caller 2.
C26_RemovedKeyIsBack ==
    /\ calls[1].op = "removeKey" /\ Succeeded(calls[1])
    /\ calls[1].args.name = <<"a">>
    /\ calls[2].op = "renameKey" /\ Succeeded(calls[2])
    /\ calls[2].ios = <<"get", "has", "commit", "get">>
    /\ DOMAIN store = {<<"/", "b">>}
    /\ store[<<"/", "b">>].key = <<"rsa", "generated", 1>>

\* The operations that only read.
ReadOnlyOps ==
    {"listKeys", "findKeyById", "findKeyByName", "exportKey", "_encrypt", "_decrypt",
     "createAnonymousEncryptedData", "readCmsData"}

\* C27: no step of listKeys, findKeyById, findKeyByName, exportKey,
\* _encrypt, _decrypt, createAnonymousEncryptedData or readCmsData changes
\* the store, and none of them asks the store for a put, a delete or a commit,
\* whether the call succeeds or fails.
C27_ReadOnlyOperationsDoNotWrite ==
    [][\A p \in Procs :
        (Step(p) /\ calls'[p].op \in ReadOnlyOps)
        => /\ store' = store
           /\ \A i \in DOMAIN calls'[p].ios : calls'[p].ios[i] \in {"get", "has", "query"}
    ]_vars

\* Witness of C27: readCmsData returned the data of an envelope, having
\* looked up and read the key, and the key is in the store.
C27_Witness ==
    /\ calls[2].op = "readCmsData" /\ Succeeded(calls[2])
    /\ calls[2].ios = <<"query", "get", "query", "get", "get">>
    /\ DOMAIN store # {}

\* An exportKey of an absent name failed, and a key is in the store.
C27_FailedReadReached ==
    /\ calls[2].op = "exportKey" /\ Failed(calls[2]) /\ calls[2].ios = <<"get">>
    /\ DOMAIN store # {}

\* C28: no operation is abandoned without its callback called: no call ends
\* in an exception thrown from one of its completion handlers.
\* (readCmsData takes key.name of what its second findKeyById found, which
\* is undefined when the key was removed after the first; createKey takes
\* type.toLowerCase() of a missing type. Both throw in a callback of the
\* store, and the callback of the operation is never called.)
C28_EveryCallCallsBack ==
    \A p \in Procs : calls[p].pc # "crashed"

\* readCmsData found the key of the recipient, the key was removed, and the
\* second lookup found none: the call is abandoned.
C28_ReadAbandoned ==
    /\ calls[2].op = "readCmsData" /\ calls[2].pc = "crashed"
    /\ calls[2].ios = <<"query", "get", "get", "query", "get">>
    /\ calls[1].op = "removeKey" /\ Succeeded(calls[1])

\* createKey of a missing type is abandoned after store.has.
C28_CreateAbandoned ==
    /\ calls[1].op = "createKey" /\ calls[1].pc = "crashed"
    /\ calls[1].args.type = <<"null-value">> /\ calls[1].ios = <<"has">>

\* The record under 'a' is in the store (no operation of the specification
\* removes or renames it once it is there).
KeyAStored == <<"/", "a">> \in DOMAIN store

\* C29: while the key under 'a' stays stored, a findKeyById of its id returns
\* its KeyInfo and a readCmsData of an envelope for it returns the data,
\* whatever a concurrent removeKey or renameKey of another key does.
\* (listKeys calls _getKeyInfo for every name the query gave; the one for a
\* name removed or renamed since fails, and its error ends the listing.)
C29_LookupsSurviveOtherKeys ==
    [][\A q \in Procs :
        (Step(q) /\ calls'[q].pc \in {"done", "crashed"} /\ KeyAStored)
        => /\ (/\ calls'[q].op = "findKeyById"
               /\ calls'[q].args.id = StoredInfo(<<"/", "a">>).id)
                => /\ Succeeded(calls'[q])
                   /\ calls'[q].val = StoredInfo(<<"/", "a">>)
           /\ (/\ calls'[q].op = "readCmsData"
               /\ calls'[q].args.cmsData[3][3][1].key = store[<<"/", "a">>].key)
                => /\ Succeeded(calls'[q])
                   /\ calls'[q].val = <<"buffer", 5, <<"plain", "other">>>>
    ]_vars

\* findKeyById of the id of the key under 'a' failed: 'b' was removed after
\* the query had listed it.
C29_LookupBroken ==
    /\ KeyAStored
    /\ calls[2].op = "findKeyById" /\ Failed(calls[2])
    /\ calls[2].args.id = StoredInfo(<<"/", "a">>).id
    /\ calls[2].err = Error("Key does not exist", <<"b">>)
    /\ calls[1].op = "removeKey" /\ Succeeded(calls[1])

\* readCmsData of an envelope for the key under 'a' found no key for the
\* same reason.
C29_ReadBroken ==
    /\ KeyAStored
    /\ calls[2].op = "readCmsData" /\ Failed(calls[2])
    /\ calls[2].args.cmsData[3][3][1].key = store[<<"/", "a">>].key
    /\ calls[2].err = Error("No key found for decryption", <<>>)

\* The datastore keys under the names the call c may write.
NamedSlots(c) ==
    IF c.op = "renameKey"
    THEN {<<"/">> \o c.args.oldName, <<"/">> \o c.args.newName}
    ELSE IF c.op \in {"createKey", "importKey", "importPeer", "removeKey"}
    THEN {<<"/">> \o c.args.name}
    ELSE {}

\* C30: a step of createKey, importKey, importPeer or removeKey changes at
\* most the record under the name it was given, a step of renameKey at most
\* the records under the old and the new name; every other record stays as
\* it is, whether the operation succeeds or fails.
C30_OnlyNamedSlotsChange ==
    [][\A p \in Procs :
        (Step(p) /\ calls[p].pc \notin {"idle", "done", "crashed"})
        => \A k \in (DOMAIN store \cup DOMAIN store') \ NamedSlots(calls[p]) :
                k \in DOMAIN store /\ k \in DOMAIN store' /\ store'[k] = store[k]
    ]_vars

\* Witness of C30: importPeer succeeded and put its record next to the one
\* of a generated key, which is still in the store.
C30_Witness ==
    /\ calls[1].op = "importPeer" /\ Succeeded(calls[1])
    /\ Cardinality(DOMAIN store) = 2
    /\ \E k \in DOMAIN store : store[k].key = <<"rsa", "generated", 1>>

====
